---- MODULE Spec2Model ----
(***************************************************************************)
(* fsbridge: the adapter selector of the facade (src/index.ts), the local  *)
(* store (storage/idb.ts) and the store traffic of the four adapters.      *)
(*                                                                         *)
(* One IndexedDB transaction is one atomic step.  A call of the facade is  *)
(* a record in `calls` while it is suspended between two transactions.     *)
(* Native collaborators (pickers, dialogs, file reads, permission prompts, *)
(* the clock) are inputs drawn with \E.                                    *)
(***************************************************************************)
EXTENDS Integers, Sequences, FiniteSets, Bags, TLC

\* ---------------------------------------------------------------- bounds
MaxIds == 3        \* identifiers generateId can hand out in one behaviour
MaxTime == 1       \* Date.now() ranges over 0..MaxTime
MaxCalls == 2      \* facade calls suspended at the same time
MaxRecent == 2     \* largest configured maxRecentFiles
MaxSelect == 2     \* files in one picker selection
MaxContent == 1    \* distinct byte payloads 0..MaxContent (0 is the empty payload)

\* ------------------------------------------------------------- constants
DB_VERSION == 2

Ids == 1..MaxIds
Times == 0..MaxTime
Contents == 0..MaxContent
Names == {"a"}
Keys == {"out"}
Platform == {"tauri", "capacitor", "web-fs-access", "web-fallback"}
NoPlatform == "none"
PersistOpt == {"undefined", "true", "false"}
ErrorCode == {"cancelled", "permission_denied", "not_supported", "not_found", "io_error", "unknown"}
DirMime == "inode/directory"
FileMime == "application/octet-stream"
NoPath == <<>>

VARIABLES
  config,         \* FSBridgeConfig after the defaults are merged in
  env,            \* the platforms whose isSupported() self-test passes in this host
  platform,       \* platform of the selected adapter, NoPlatform before construction
  now,            \* the value Date.now() returns
  handles,        \* object store 'handles':       id -> StoredHandle
  handleObjects,  \* object store 'handleObjects': id -> native handle
  files,          \* object store 'files':         id -> StoredFile
  namedHandles,   \* object store 'namedHandles':  key -> named record
  db,             \* the database on disk and this instance's connection to it
  calls,          \* facade calls suspended between two store transactions
  usedIds,        \* identifiers generateId has returned
  putOrder,       \* history: identifiers in the order of their latest put
  lastRet         \* the most recent result a facade call returned

vars == <<config, env, platform, now, handles, handleObjects, files, namedHandles, db,
          calls, usedIds, putOrder, lastRet>>

storeVars == <<handles, handleObjects, files, namedHandles>>

\* ------------------------------------------------------------ collections
Empty == <<>>

Put(coll, k, v) == [i \in (DOMAIN coll) \cup {k} |-> IF i = k THEN v ELSE coll[i]]

Delete(coll, k) == [i \in (DOMAIN coll) \ {k} |-> coll[i]]

Range(s) == {s[i] : i \in 1..Len(s)}

Without(s, x) == SelectSeq(s, LAMBDA y : y # x)

RECURSIVE Reverse(_)
Reverse(s) == IF s = <<>> THEN <<>> ELSE Append(Reverse(Tail(s)), Head(s))

\* slice(n): the elements after the first n
Slice(s, n) == IF Len(s) <= n THEN <<>> ELSE SubSeq(s, n + 1, Len(s))

\* ------------------------------------------------------------- the facade
Configs ==
  [preferredAdapter : Platform \cup {"undefined"},
   useNativeFSAccess : BOOLEAN,
   maxRecentFiles : 1..MaxRecent,
   persistByDefault : BOOLEAN]

\* the host: whether `window` and `document` exist, and the properties of window
Globals == {"__TAURI__", "Capacitor", "showOpenFilePicker"}

Envs ==
  {e \in [window : BOOLEAN, document : BOOLEAN, globals : SUBSET Globals] :
     ~e.window => e.globals = {}}

Browser == [window |-> TRUE, document |-> TRUE, globals |-> Globals]

\* `'X' in window`: a ReferenceError when the host has no window
InWindow(g, e) == IF ~e.window THEN "throws" ELSE IF g \in e.globals THEN "true" ELSE "false"

\* adapter.isSupported() of the adapter built for platform p, in host e
isSupported(p, e) ==
  CASE p = "tauri" -> InWindow("__TAURI__", e)
    [] p = "capacitor" -> InWindow("Capacitor", e)
    [] p = "web-fs-access" -> InWindow("showOpenFilePicker", e)
    [] OTHER -> IF e.document THEN "true" ELSE "false"

\* the for loop of selectAdapter over `order`; "undefined" when it falls through
RECURSIVE FirstSupported(_, _)
FirstSupported(order, e) ==
  IF order = <<>> THEN "undefined"
  ELSE IF isSupported(Head(order), e) = "true" THEN Head(order)
  ELSE IF isSupported(Head(order), e) = "throws" THEN "throws"
  ELSE FirstSupported(Tail(order), e)

ProbeOrder(cfg) ==
  IF cfg.useNativeFSAccess
    THEN <<"tauri", "capacitor", "web-fs-access", "web-fallback">>
    ELSE <<"tauri", "capacitor", "web-fallback">>

\* a selector that goes by the priority order alone
selectAdapterByOrder(cfg, e) ==
  IF FirstSupported(ProbeOrder(cfg), e) # "undefined"
    THEN FirstSupported(ProbeOrder(cfg), e)
  ELSE "web-fallback"

\* the platform of the adapter selectAdapter returns; "throws" when a self-test raises
selectAdapter(cfg, e) ==
  IF cfg.preferredAdapter \in Platform /\ isSupported(cfg.preferredAdapter, e) = "true"
    THEN cfg.preferredAdapter
  ELSE IF cfg.preferredAdapter \in Platform /\ isSupported(cfg.preferredAdapter, e) = "throws"
    THEN "throws"
  ELSE IF FirstSupported(ProbeOrder(cfg), e) # "undefined"
    THEN FirstSupported(ProbeOrder(cfg), e)
  ELSE "web-fallback"

\* options.persist ?? this.persistByDefault
ShouldPersist(opt) == IF opt = "undefined" THEN config.persistByDefault ELSE opt = "true"

UsesHandles == platform = "web-fs-access"

\* -------------------------------------------------------- storage/idb.ts
\* index('storedAt').getAll(): ascending by index key, then by primary key
IndexBefore(coll, i, j) ==
  \/ coll[i].storedAt < coll[j].storedAt
  \/ coll[i].storedAt = coll[j].storedAt /\ i < j

RECURSIVE IndexGetAllOf(_, _)
IndexGetAllOf(coll, S) ==
  IF S = {} THEN <<>>
  ELSE LET m == CHOOSE i \in S : \A j \in S \ {i} : IndexBefore(coll, i, j)
       IN  <<m>> \o IndexGetAllOf(coll, S \ {m})

IndexGetAll(coll) == IndexGetAllOf(coll, DOMAIN coll)

\* Array.prototype.sort((a, b) => b.storedAt - a.storedAt): stable
RECURSIVE InsertDesc(_, _, _)
InsertDesc(coll, sorted, x) ==
  IF sorted = <<>> THEN <<x>>
  ELSE IF coll[Head(sorted)].storedAt >= coll[x].storedAt
    THEN <<Head(sorted)>> \o InsertDesc(coll, Tail(sorted), x)
  ELSE <<x>> \o sorted

RECURSIVE SortByStoredAtDesc(_, _)
SortByStoredAtDesc(coll, s) ==
  IF s = <<>> THEN <<>>
  ELSE InsertDesc(coll, SortByStoredAtDesc(coll, SubSeq(s, 1, Len(s) - 1)), s[Len(s)])

getStoredHandles == SortByStoredAtDesc(handles, IndexGetAll(handles))

\* a listing that returns the index order as read, without the sort
getStoredFilesUnsorted == IndexGetAll(files)

getStoredFiles == SortByStoredAtDesc(files, IndexGetAll(files))

\* the item references of the recent list, as identifiers, most recent first
RecentIds == IF UsesHandles THEN getStoredHandles ELSE getStoredFiles

Recent == IF UsesHandles THEN handles ELSE files

\* a pruning that keeps one entry more than the configured maximum
ToRemoveOffByOne(list) ==
  IF Len(list) <= config.maxRecentFiles + 1 THEN <<>> ELSE Slice(list, config.maxRecentFiles + 1)

\* pruneOldHandles / pruneOldFiles after their read: the identifiers to remove
ToRemove(list) == IF Len(list) <= config.maxRecentFiles THEN <<>> ELSE Slice(list, config.maxRecentFiles)

\* ---------------------------------------------------------------- calls
NoItem == [name |-> "", kind |-> "", path |-> NoPath, content |-> 0, mimeType |-> "", storedAt |-> 0]

CaptureOps == {"openFile", "saveFileAs", "openDirectory"}

\* `calls` is a bag: two calls may be suspended at the same point with the same values
InFlight == BagToSet(calls)

Leave(c) == calls (-) SetToBag({c})

Become(c, d) == Leave(c) (+) SetToBag({d})

Enter(d) == calls (+) SetToBag({d})

Suspend(op, pc, remaining, id, item, done) ==
  [op |-> op, pc |-> pc, remaining |-> remaining, id |-> id,
   item |-> item, toRemove |-> <<>>, done |-> done, persist |-> TRUE]

\* a result, and what produced it: the adapter, the facade itself, the user
\* dismissing a dialog, or the local store rejecting a read; `persist` marks a
\* success of a call whose effective persist flag was true
Result(op, res, ids) ==
  [op |-> op, res |-> res, ids |-> ids, by |-> "adapter", persist |-> FALSE]

\* no call returned in the last step
NoResult == Result("none", "ok", <<>>)

\* a generateId that can return an identifier again
generateIdAgain(id) == id \in Ids

\* generateId(): `${Date.now()}-${random}`, an identifier no earlier call returned;
\* two identifiers made in the same millisecond compare by their random parts, so
\* the order of the identifiers is not the order of their creation
generateId(id) == id \in Ids \ usedIds

\* --------------------------------------------------- native error mapping
FSAccessErrors == {"AbortError", "SecurityError", "NotAllowedError", "NotFoundError", "TypeError"}
\* Error.message values the catch blocks of the path and content adapters tell apart
MessageErrors == {"No such file", "does not exist", "Permission denied", "disk failure"}

\* DOMException names the local store rejects with: indexedDB.open fails with
\* AbortError when its upgrade transaction aborted, a write with QuotaExceededError
StoreErrors == {"AbortError", "QuotaExceededError"}

NativeErrors == IF UsesHandles THEN FSAccessErrors ELSE MessageErrors

\* the catch blocks of FSAccessAdapter
FSAccessCatch(op, e) ==
  IF e = "AbortError" /\ op \in {"openFile", "saveFile", "saveFileAs", "openDirectory"} THEN "cancelled"
  ELSE IF e = "NotFoundError" /\ op \in {"readFileFromDirectory", "restoreFile", "restoreDirectory", "getNamedDirectory"}
    THEN "not_found"
  ELSE IF e = "SecurityError" THEN "permission_denied"
  ELSE IF e = "NotAllowedError" /\ op # "openFile" THEN "permission_denied"
  ELSE "io_error"

\* the catch blocks of TauriAdapter
TauriCatch(op, e) ==
  IF e = "No such file" /\ op \in {"openFile", "readDirectory", "readFileFromDirectory", "restoreDirectory"}
    THEN "not_found"
  ELSE IF e = "Permission denied" /\ op \in {"saveFile", "saveFileAs", "readDirectory", "readFileFromDirectory"}
    THEN "permission_denied"
  ELSE "io_error"

\* the catch blocks of CapacitorAdapter
CapacitorCatch(op, e) ==
  IF e = "does not exist" /\ op \in {"readDirectory", "readFileFromDirectory"} THEN "not_found"
  ELSE IF e = "Permission denied" /\ op # "openFile" THEN "permission_denied"
  ELSE "io_error"

\* the catch blocks of PickerIDBAdapter
PickerIDBCatch(op, e) == "io_error"

Catch(op, e) ==
  CASE platform = "web-fs-access" -> FSAccessCatch(op, e)
    [] platform = "tauri" -> TauriCatch(op, e)
    [] platform = "capacitor" -> CapacitorCatch(op, e)
    [] OTHER -> PickerIDBCatch(op, e)

\* ------------------------------------------- what each adapter stores
TauriPath(name) == <<"/", name>>

getFileName(path) == path[Len(path)]

SyntheticPath(id, name) == <<"fsbridge", id, name>>

Falsy(path) == path = NoPath \/ path = <<"">>

\* the record openFile hands to storeHandle / storeFile for one selected file
OpenFileItem(id, name, content) ==
  CASE platform = "web-fs-access" ->
         [NoItem EXCEPT !.name = name, !.kind = "file", !.storedAt = now]
    [] platform = "tauri" ->
         [NoItem EXCEPT !.name = getFileName(TauriPath(name)), !.path = TauriPath(name),
                        !.content = content, !.mimeType = FileMime, !.storedAt = now]
    [] platform = "capacitor" ->
         [NoItem EXCEPT !.name = name, !.path = SyntheticPath(id, name),
                        !.content = content, !.mimeType = FileMime, !.storedAt = now]
    [] OTHER ->
         [NoItem EXCEPT !.name = name, !.content = content, !.mimeType = FileMime, !.storedAt = now]

\* saveFileAs writes `content` to a new target; web-fallback and capacitor name it
\* options.suggestedName ?? 'untitled'
SaveFileAsItem(id, name, content) == OpenFileItem(id, name, content)

OpenDirectoryItem(id, name) ==
  CASE platform = "web-fs-access" ->
         [NoItem EXCEPT !.name = name, !.kind = "directory", !.storedAt = now]
    [] platform = "tauri" ->
         [NoItem EXCEPT !.name = getFileName(TauriPath(name)), !.path = TauriPath(name),
                        !.mimeType = DirMime, !.storedAt = now]
    [] OTHER ->
         [NoItem EXCEPT !.name = "Documents", !.path = <<"">>, !.mimeType = DirMime, !.storedAt = now]
\* a stored record for saveFile that carries the time of the first capture
SaveFileItemFirstStamp(file, content) ==
  [NoItem EXCEPT !.name = file.name, !.path = file.path,
                 !.content = content, !.mimeType = file.mimeType, !.storedAt = 0]

\* saveFile(file, content) re-stores the caller's file value under file.id
SaveFileItem(file, content) ==
  [NoItem EXCEPT !.name = file.name,
                 !.path = IF platform = "capacitor" /\ file.path = NoPath
                            THEN SyntheticPath(file.id, file.name) ELSE file.path,
                 !.content = content, !.mimeType = file.mimeType, !.storedAt = now]

StoredHandleOf(item) == [name |-> item.name, type |-> item.kind, storedAt |-> item.storedAt]

HandleOf(item) == [name |-> item.name, kind |-> item.kind]

\* content.byteLength: a content value n stands for a buffer of n bytes
byteLength(content) == content

StoredFileOf(item) ==
  [name |-> item.name, path |-> item.path, content |-> item.content,
   mimeType |-> item.mimeType, size |-> byteLength(item.content), storedAt |-> item.storedAt]

\* ------------------------------------------------ IDBStorage transactions
\* storeHandle: one readwrite transaction over 'handles' and 'handleObjects'
storeHandle(id, item) ==
  /\ handles' = Put(handles, id, StoredHandleOf(item))
  /\ handleObjects' = Put(handleObjects, id, HandleOf(item))
  /\ UNCHANGED <<files, namedHandles>>

\* storeFile: one readwrite transaction over 'files'
storeFile(id, item) ==
  /\ files' = Put(files, id, StoredFileOf(item))
  /\ UNCHANGED <<handles, handleObjects, namedHandles>>

\* a removeHandle that deletes the item reference and leaves the native handle
removeHandleRefOnly(id) ==
  /\ handles' = Delete(handles, id)
  /\ UNCHANGED <<handleObjects, files, namedHandles>>

removeHandle(id) ==
  /\ handles' = Delete(handles, id)
  /\ handleObjects' = Delete(handleObjects, id)
  /\ UNCHANGED <<files, namedHandles>>

\* a removeFile whose delete request is never issued
removeFileNoop(id) == UNCHANGED <<handles, handleObjects, files, namedHandles>>

removeFile(id) ==
  /\ files' = Delete(files, id)
  /\ UNCHANGED <<handles, handleObjects, namedHandles>>

\* a clearHandles that also clears the named-directory collection
clearHandlesAndNamed ==
  /\ handles' = Empty
  /\ handleObjects' = Empty
  /\ namedHandles' = Empty
  /\ UNCHANGED files

\* Variant: clears the item references and leaves the native handles behind.
clearHandlesRefsOnly ==
  /\ handles' = Empty
  /\ UNCHANGED <<handleObjects, files, namedHandles>>

clearHandles ==
  /\ handles' = Empty
  /\ handleObjects' = Empty
  /\ UNCHANGED <<files, namedHandles>>

clearFiles ==
  /\ files' = Empty
  /\ UNCHANGED <<handles, handleObjects, namedHandles>>

setNamedHandle(key, handle) ==
  /\ namedHandles' = Put(namedHandles, key,
        [handle |-> handle, name |-> handle.name, type |-> handle.kind, storedAt |-> now])
  /\ UNCHANGED <<handles, handleObjects, files>>

removeNamedHandle(key) ==
  /\ namedHandles' = Delete(namedHandles, key)
  /\ UNCHANGED <<handles, handleObjects, files>>

\* ------------------------------------------------- the steps of a capture
\* the call returns `res` to the application
Return(c, op, res, ids) ==
  /\ calls' = Leave(c)
  /\ lastRet' = [Result(op, res, ids) EXCEPT !.persist = (res = "ok" /\ c.persist)]

\* the adapter resumes after storeHandle / storeFile resolved: the item joins the
\* result; the loop of openFile goes on to the next selected file or the call returns
Resume(c) ==
  IF c.remaining = 0
    THEN Return(c, c.op, "ok", Append(c.done, c.id))
    ELSE /\ calls' = Become(c, [c EXCEPT !.pc = "iter", !.done = Append(c.done, c.id),
                                           !.toRemove = <<>>])
         /\ lastRet' = NoResult

\* a store write that resolves at tx.oncomplete without pruning
StorePutNoPrune(c) ==
  /\ c.pc = "put"
  /\ IF UsesHandles THEN storeHandle(c.id, c.item) ELSE storeFile(c.id, c.item)
  /\ putOrder' = Append(Without(putOrder, c.id), c.id)
  /\ Resume(c)
  /\ UNCHANGED <<config, env, db, platform, now, usedIds>>

\* tx of storeHandle / storeFile completes; tx.oncomplete then starts the pruning
StorePut(c) ==
  /\ c.pc = "put"
  /\ IF UsesHandles THEN storeHandle(c.id, c.item) ELSE storeFile(c.id, c.item)
  /\ putOrder' = Append(Without(putOrder, c.id), c.id)
  /\ calls' = Become(c, [c EXCEPT !.pc = "prune"])
  /\ lastRet' = NoResult
  /\ UNCHANGED <<config, env, db, platform, now, usedIds>>

\* getDB or the transaction of storeHandle / storeFile fails: the promise rejects
\* with the store's error inside the adapter's try block, nothing is written
StoreFail(c) ==
  /\ c.pc = "put"
  /\ \E e \in StoreErrors : Return(c, c.op, Catch(c.op, e), <<>>)
  /\ UNCHANGED <<config, env, db, platform, now, handles, handleObjects, files, namedHandles,
                 usedIds, putOrder>>

\* the transaction of storeHandle / storeFile aborts when it commits (quota,
\* disk): its puts are undone and only the abort event fires, for which the
\* promise has no handler, so it neither resolves nor rejects and the call
\* that awaits it stays where it is
StoreAbort(c) ==
  /\ c.pc = "put"
  /\ calls' = Become(c, [c EXCEPT !.pc = "unsettled"])
  /\ lastRet' = NoResult
  /\ UNCHANGED <<config, env, db, platform, now, handles, handleObjects, files, namedHandles,
                 usedIds, putOrder>>

\* pruneOldHandles / pruneOldFiles: the read of the list and the length test
PruneRead(c) ==
  /\ c.pc = "prune"
  /\ IF ToRemove(RecentIds) = <<>>
       THEN Resume(c)
       ELSE /\ calls' = Become(c, [c EXCEPT !.pc = "remove", !.toRemove = ToRemove(RecentIds)])
            /\ lastRet' = NoResult
  /\ UNCHANGED <<config, env, db, platform, now, handles, handleObjects, files, namedHandles,
                 usedIds, putOrder>>

\* pruneOldHandles / pruneOldFiles: one removeHandle / removeFile of the for loop
PruneRemove(c) ==
  /\ c.pc = "remove"
  /\ IF UsesHandles THEN removeHandle(Head(c.toRemove)) ELSE removeFile(Head(c.toRemove))
  /\ IF Tail(c.toRemove) = <<>>
       THEN Resume(c)
       ELSE /\ calls' = Become(c, [c EXCEPT !.toRemove = Tail(c.toRemove)])
            /\ lastRet' = NoResult
  /\ UNCHANGED <<config, env, db, platform, now, usedIds, putOrder>>

\* the pruning inside `tx.oncomplete = async () => { await this.prune..(); resolve() }`
\* rejects (its list read or one of its deletes fails): the rejection is that of
\* the handler's own promise, resolve() is not reached and nothing rejects the
\* promise storeHandle / storeFile returned
PruneFail(c) ==
  /\ c.pc \in {"prune", "remove"}
  /\ calls' = Become(c, [c EXCEPT !.pc = "unsettled"])
  /\ lastRet' = NoResult
  /\ UNCHANGED <<config, env, db, platform, now, handles, handleObjects, files, namedHandles,
                 usedIds, putOrder>>

\* openFile with multiple: the next selected file is read and handed to the store
Iter(c, bytes) ==
  /\ c.pc = "iter"
  /\ \/ \E res \in {Catch(c.op, e) : e \in NativeErrors} :
          /\ Return(c, c.op, res, <<>>)
          /\ UNCHANGED usedIds
     \/ \E id \in Ids, name \in Names, content \in bytes :
          /\ generateId(id)
          /\ usedIds' = usedIds \cup {id}
          /\ calls' = Become(c, [c EXCEPT !.pc = "put", !.id = id, !.remaining = c.remaining - 1,
                                            !.item = OpenFileItem(id, name, content)])
          /\ lastRet' = NoResult
  /\ UNCHANGED <<config, env, db, platform, now, handles, handleObjects, files, namedHandles, putOrder>>

\* ------------------------------------------------------ facade operations
PermissionStatus == {"granted", "prompt", "denied"}

RECURSIVE AscSeq(_)
AscSeq(S) ==
  IF S = {} THEN <<>>
  ELSE LET m == CHOOSE i \in S : \A j \in S : i <= j IN <<m>> \o AscSeq(S \ {m})

\* the application has taken the last result and keeps fewer than k calls in flight
MayBegin(k) == lastRet = NoResult /\ BagCardinality(calls) < k

\* a native picker or dialog is shown by this platform for this operation
HasDialog(op) == platform \in {"web-fs-access", "tauri"} \/ op = "openFile"

\* how the picker / dialog (and the module load before it) can end
DialogOutcomes(op) ==
  {"ok"} \cup (IF HasDialog(op) /\ platform # "web-fs-access" THEN {"cancel"} ELSE {})
         \cup (IF platform \in {"web-fs-access", "tauri"} THEN NativeErrors ELSE {})

\* how the native read / write that precedes the store write can end
NativeOutcomes(op) ==
  IF \/ op = "openDirectory" /\ platform \in {"web-fs-access", "tauri"}
     \/ op \in {"saveFile", "saveFileAs"} /\ platform = "web-fallback"
    THEN {"ok"}
    ELSE {"ok"} \cup NativeErrors

CaptureItem(op, id, name, content) ==
  CASE op = "openFile" -> OpenFileItem(id, name, content)
    [] op = "saveFileAs" -> SaveFileAsItem(id, name, content)
    [] OTHER -> OpenDirectoryItem(id, name)

\* the failures a capture can return before it reaches the store
CaptureFailures(op) ==
  (IF "cancel" \in DialogOutcomes(op) THEN {"cancelled"} ELSE {})
    \cup {Catch(op, e) : e \in (DialogOutcomes(op) \cup NativeOutcomes(op)) \ {"ok", "cancel"}}

\* openFile / saveFileAs / openDirectory end before they reach the store: the
\* dialog is dismissed, or the dialog or the native read / write fails
CaptureFail(op, k) ==
  /\ MayBegin(k)
  /\ \E res \in CaptureFailures(op) : lastRet' = Result(op, res, <<>>)
  /\ UNCHANGED <<config, env, db, platform, now, handles, handleObjects, files, namedHandles,
                 calls, usedIds, putOrder>>

\* openFile / saveFileAs / openDirectory with persistence, up to the first store
\* transaction: the dialog closed, the first item is read and identified, and
\* storeHandle / storeFile is called with the clock read as storedAt
CaptureStore(op, k, bytes) ==
  /\ MayBegin(k)
  /\ \E opt \in PersistOpt, n \in 1..MaxSelect, id \in Ids, name \in Names, content \in bytes :
       /\ ShouldPersist(opt)
       /\ op # "openFile" => n = 1
       /\ generateId(id)
       /\ usedIds' = usedIds \cup {id}
       /\ calls' = Enter(Suspend(op, "put", n - 1, id, CaptureItem(op, id, name, content), <<>>))
       /\ lastRet' = NoResult
  /\ UNCHANGED <<config, env, db, platform, now, handles, handleObjects, files, namedHandles, putOrder>>

\* openFile / saveFileAs / openDirectory without persistence: every selected item
\* gets an identifier and the call returns without a store transaction
CaptureNoStore(op, k) ==
  /\ MayBegin(k)
  /\ \E opt \in PersistOpt, n \in 1..MaxSelect, S \in SUBSET (Ids \ usedIds) :
       /\ ~ShouldPersist(opt)
       /\ op # "openFile" => n = 1
       /\ Cardinality(S) = n
       /\ usedIds' = usedIds \cup S
       /\ lastRet' = Result(op, "ok", AscSeq(S))
  /\ UNCHANGED <<config, env, db, platform, now, handles, handleObjects, files, namedHandles,
                 calls, putOrder>>

\* the optional methods of FSBridgeAdapter each adapter class defines
OptionalOps ==
  {"openDirectory", "readDirectory", "readFileFromDirectory", "restoreDirectory",
   "queryPermission", "requestPermission",
   "setNamedDirectory", "getNamedDirectory", "removeNamedDirectory"}

Implements(p, op) ==
  CASE op \in {"openDirectory", "readDirectory", "readFileFromDirectory"} -> p # "web-fallback"
    [] op = "restoreDirectory" -> p \in {"web-fs-access", "tauri"}
    [] op \in {"queryPermission", "requestPermission",
               "setNamedDirectory", "getNamedDirectory", "removeNamedDirectory"} -> p = "web-fs-access"
    [] OTHER -> TRUE

\* a facade that reports a missing optional method as a generic failure
NotSupportedAsUnknown(op, k) ==
  /\ MayBegin(k)
  /\ lastRet' = [Result(op, "unknown", <<>>) EXCEPT !.by = "facade"]
  /\ UNCHANGED <<config, env, db, platform, now, handles, handleObjects, files, namedHandles,
                 calls, usedIds, putOrder>>

\* the facade's synthesized failure for an optional operation the adapter lacks
NotSupported(op, k) ==
  /\ MayBegin(k)
  /\ lastRet' = [Result(op, "not_supported", <<>>) EXCEPT !.by = "facade"]
  /\ UNCHANGED <<config, env, db, platform, now, handles, handleObjects, files, namedHandles,
                 calls, usedIds, putOrder>>

HasOpenDirectory == Implements(platform, "openDirectory")

openFileFail(k) == CaptureFail("openFile", k)

openFileStore(k, bytes) == CaptureStore("openFile", k, bytes)

openFileNoStore(k) == CaptureNoStore("openFile", k)

\* the ways the user can dismiss the open dialog of this platform: the picker
\* promise rejects with AbortError, dialog.open resolves to null, the file input
\* fires cancel, or it fires change with no file
DismissForms ==
  CASE platform = "web-fs-access" -> {"abort"}
    [] platform = "tauri" -> {"null"}
    [] OTHER -> {"cancel", "empty"}

\* an openFile that takes whatever the dialog resolved to as a selection
OpenFileOnDismissAsSelection(form) == "ok"

\* what openFile returns for a dismissed dialog
OpenFileOnDismiss(form) ==
  CASE form = "abort" -> FSAccessCatch("openFile", "AbortError")
    [] form = "null" -> "cancelled"
    [] form = "empty" -> "cancelled"
    [] form = "cancel" -> "cancelled"

\* openFile whose dialog the user dismisses
openFileDismiss(k) ==
  /\ MayBegin(k)
  /\ \E form \in DismissForms :
       lastRet' = [Result("openFile", OpenFileOnDismiss(form), <<>>) EXCEPT !.by = "user"]
  /\ UNCHANGED <<config, env, db, platform, now, handles, handleObjects, files, namedHandles,
                 calls, usedIds, putOrder>>

saveFileAsFail(k) == CaptureFail("saveFileAs", k)

saveFileAsStore(k, bytes) == CaptureStore("saveFileAs", k, bytes)

saveFileAsNoStore(k) == CaptureNoStore("saveFileAs", k)

openDirectoryFail(k) ==
  IF HasOpenDirectory THEN CaptureFail("openDirectory", k) ELSE NotSupported("openDirectory", k)

openDirectoryStore(k) == HasOpenDirectory /\ CaptureStore("openDirectory", k, {0})

openDirectoryNoStore(k) == HasOpenDirectory /\ CaptureNoStore("openDirectory", k)

\* the copy of FSAccessAdapter at adapters/fs-access.ts, the module the facade
\* imports: its openDirectory reads no persist flag and calls storeHandle after
\* every picked directory, so a call with an effective flag of false reaches the store
openDirectoryUnguarded(k) ==
  /\ MayBegin(k)
  /\ platform = "web-fs-access"
  /\ \E opt \in PersistOpt, id \in Ids, name \in Names :
       /\ ~ShouldPersist(opt)
       /\ generateId(id)
       /\ usedIds' = usedIds \cup {id}
       /\ calls' = Enter([Suspend("openDirectory", "put", 0, id, OpenDirectoryItem(id, name), <<>>)
                            EXCEPT !.persist = FALSE])
       /\ lastRet' = NoResult
  /\ UNCHANGED <<config, env, db, platform, now, handles, handleObjects, files, namedHandles, putOrder>>

\* the result of FSAccessAdapter.saveFile / restoreFile / restoreDirectory /
\* getNamedDirectory once the handle is at hand: permission, then the native access
WithPermission(op, q, r, thrown) ==
  IF thrown # "ok" THEN Catch(op, thrown)
  ELSE IF q # "granted" /\ r # "granted" THEN "permission_denied"
  ELSE "ok"

PermissionResults(op) ==
  {WithPermission(op, q, r, thrown) :
     q \in PermissionStatus, r \in PermissionStatus, thrown \in {"ok"} \cup FSAccessErrors}

\* the file value a caller passes to saveFile: one an earlier call returned
CallerFile(id, name, hasTarget) ==
  [id |-> id, name |-> name, mimeType |-> FileMime,
   path |-> IF ~hasTarget THEN NoPath
            ELSE IF platform = "tauri" THEN TauriPath(name)
            ELSE IF platform = "capacitor" THEN SyntheticPath(id, name)
            ELSE NoPath]

\* what saveFile(file, content) can return when it does not reach the store
SaveFileResults(hasTarget, persist) ==
  CASE platform = "web-fs-access" ->
         IF ~hasTarget THEN {"not_supported"} ELSE PermissionResults("saveFile")
    [] platform = "tauri" ->
         IF ~hasTarget THEN {"not_supported"}
         ELSE {Catch("saveFile", e) : e \in NativeErrors} \cup (IF persist THEN {} ELSE {"ok"})
    [] platform = "capacitor" ->
         {Catch("saveFile", e) : e \in NativeErrors} \cup (IF persist THEN {} ELSE {"ok"})
    [] OTHER -> IF persist THEN {} ELSE {"ok"}

\* saveFile returns without a store transaction
saveFileNoStore(k) ==
  /\ MayBegin(k)
  /\ \E id \in usedIds, hasTarget \in BOOLEAN, opt \in PersistOpt :
       \E res \in SaveFileResults(hasTarget, ShouldPersist(opt)) :
         lastRet' = [Result("saveFile", res, <<id>>)
                       EXCEPT !.persist = (res = "ok" /\ ShouldPersist(opt))]
  /\ UNCHANGED <<config, env, db, platform, now, handles, handleObjects, files, namedHandles,
                 calls, usedIds, putOrder>>

\* saveFile with persistence on the content-caching backends, up to its store
\* transaction: the native write (or none on web-fallback) succeeded
saveFileStore(k, bytes) ==
  /\ MayBegin(k)
  /\ platform # "web-fs-access"
  /\ \E id \in usedIds, name \in Names, hasTarget \in BOOLEAN, opt \in PersistOpt, content \in bytes :
       /\ platform = "tauri" => hasTarget
       /\ ShouldPersist(opt)
       /\ calls' = Enter(Suspend("saveFile", "put", 0, id,
                                 SaveFileItem(CallerFile(id, name, hasTarget), content), <<>>))
       /\ lastRet' = NoResult
  /\ UNCHANGED <<config, env, db, platform, now, handles, handleObjects, files, namedHandles,
                 usedIds, putOrder>>

getRecentFiles(k) ==
  /\ MayBegin(k)
  /\ lastRet' = Result("getRecentFiles", "ok", RecentIds)
  /\ UNCHANGED <<config, env, db, platform, now, handles, handleObjects, files, namedHandles,
                 calls, usedIds, putOrder>>

\* what restoreFile(stored) can return; it reads the store once and then the source
RestoreFileResults(id) ==
  CASE platform = "web-fs-access" ->
         IF id \notin DOMAIN handleObjects \/ handleObjects[id].kind # "file"
           THEN {"not_found"} ELSE PermissionResults("restoreFile")
    [] OTHER -> IF id \notin DOMAIN files THEN {"not_found"} ELSE {"ok"}

\* a restoreFile that re-stores the record after a successful read
restoreFileRecaching(k) ==
  /\ MayBegin(k)
  /\ \E id \in Ids : \E res \in RestoreFileResults(id) :
       /\ lastRet' = Result("restoreFile", res, <<id>>)
       /\ IF platform = "tauri" /\ res = "ok"
            THEN files' = [files EXCEPT ![id].storedAt = now]
            ELSE UNCHANGED files
  /\ UNCHANGED <<config, env, db, platform, now, handles, handleObjects, namedHandles,
                 calls, usedIds, putOrder>>

restoreFile(k) ==
  /\ MayBegin(k)
  /\ \E id \in Ids : \E res \in RestoreFileResults(id) :
       lastRet' = Result("restoreFile", res, <<id>>)
  /\ UNCHANGED <<config, env, db, platform, now, handles, handleObjects, files, namedHandles,
                 calls, usedIds, putOrder>>

\* what restoreDirectory(stored) can return; on tauri fs.stat reports isDirectory or throws
RestoreDirectoryResults(id) ==
  CASE platform = "web-fs-access" ->
         IF id \notin DOMAIN handleObjects \/ handleObjects[id].kind # "directory"
           THEN {"not_found"} ELSE PermissionResults("restoreDirectory")
    [] platform = "tauri" ->
         IF id \notin DOMAIN files \/ files[id].mimeType # DirMime THEN {"not_found"}
         ELSE IF Falsy(files[id].path) THEN {"not_found"}
         ELSE {Catch("restoreDirectory", e) : e \in NativeErrors} \cup {"not_found", "ok"}
    [] OTHER -> {"not_supported"}

restoreDirectory(k) ==
  IF ~Implements(platform, "restoreDirectory") THEN NotSupported("restoreDirectory", k)
  ELSE
    /\ MayBegin(k)
    /\ \E id \in Ids : \E res \in RestoreDirectoryResults(id) :
         lastRet' = Result("restoreDirectory", res, <<id>>)
    /\ UNCHANGED <<config, env, db, platform, now, handles, handleObjects, files, namedHandles,
                   calls, usedIds, putOrder>>

\* what readDirectory(directory) can return: the listing is read from the native
\* directory, entry by entry, and nothing is stored
ReadDirectoryResults(hasTarget) ==
  IF platform # "capacitor" /\ ~hasTarget THEN {"not_supported"}
  ELSE {"ok"} \cup {Catch("readDirectory", e) : e \in NativeErrors}

readDirectory(k) ==
  IF ~Implements(platform, "readDirectory") THEN NotSupported("readDirectory", k)
  ELSE
    /\ MayBegin(k)
    /\ \E hasTarget \in BOOLEAN : \E res \in ReadDirectoryResults(hasTarget) :
         lastRet' = Result("readDirectory", res, <<>>)
    /\ UNCHANGED <<config, env, db, platform, now, handles, handleObjects, files, namedHandles,
                   calls, usedIds, putOrder>>

EntryKind == {"file", "directory"}

\* the failures of readFileFromDirectory(directory, entry)
ReadFileFromDirectoryFailures(hasTarget, kind) ==
  IF ~hasTarget \/ kind # "file" THEN {"not_supported"}
  ELSE {Catch("readFileFromDirectory", e) : e \in NativeErrors}

readFileFromDirectory(k) ==
  IF ~Implements(platform, "readFileFromDirectory") THEN NotSupported("readFileFromDirectory", k)
  ELSE
    /\ MayBegin(k)
    /\ \/ /\ \E hasTarget \in BOOLEAN, kind \in EntryKind :
               \E res \in ReadFileFromDirectoryFailures(hasTarget, kind) :
                 lastRet' = Result("readFileFromDirectory", res, <<>>)
          /\ UNCHANGED usedIds
       \/ \E id \in Ids :
            /\ generateId(id)
            /\ usedIds' = usedIds \cup {id}
            /\ lastRet' = Result("readFileFromDirectory", "ok", <<id>>)
    /\ UNCHANGED <<config, env, db, platform, now, handles, handleObjects, files, namedHandles,
                   calls, putOrder>>

\* a result the facade produces without a call of the adapter
\* the operations that begin with a read of the local store, and whether that
\* read is awaited inside the adapter's try block
LookupOps == {"restoreFile", "restoreDirectory", "getNamedDirectory"}

LookupGuarded(op) == op = "getNamedDirectory"

\* the store's read rejects with e: the catch block maps it, or, where the read
\* is awaited before the try block, the adapter's promise and with it the
\* facade's rejects
LookupFailure(op, e) == IF LookupGuarded(op) THEN Catch(op, e) ELSE "raised"

\* restoreFile / restoreDirectory / getNamedDirectory whose getHandleObject /
\* getStoredFile / getNamedHandle is rejected by the store
StoreLookupFail(k) ==
  /\ MayBegin(k)
  /\ \E op \in LookupOps, e \in StoreErrors :
       /\ Implements(platform, op)
       /\ lastRet' = [Result(op, LookupFailure(op, e), <<>>) EXCEPT !.by = "store"]
  /\ UNCHANGED <<config, env, db, platform, now, handles, handleObjects, files, namedHandles,
                 calls, usedIds, putOrder>>

FacadeResult(op, res, k) ==
  /\ MayBegin(k)
  /\ lastRet' = [Result(op, res, <<>>) EXCEPT !.by = "facade"]
  /\ UNCHANGED <<config, env, db, platform, now, handles, handleObjects, files, namedHandles,
                 calls, usedIds, putOrder>>

\* FSAccessAdapter.queryPermission: 'denied' without a handle or when the query raises
QueryPermissionResults(hasHandle) == IF hasHandle THEN PermissionStatus ELSE {"denied"}

\* a facade whose default answer without an adapter method is 'denied'
queryPermissionDenied(k) ==
  IF ~Implements(platform, "queryPermission") THEN FacadeResult("queryPermission", "denied", k)
  ELSE
    /\ MayBegin(k)
    /\ \E hasHandle \in BOOLEAN : \E res \in QueryPermissionResults(hasHandle) :
         lastRet' = Result("queryPermission", res, <<>>)
    /\ UNCHANGED <<config, env, db, platform, now, handles, handleObjects, files, namedHandles,
                   calls, usedIds, putOrder>>

queryPermission(k) ==
  IF ~Implements(platform, "queryPermission") THEN FacadeResult("queryPermission", "granted", k)
  ELSE
    /\ MayBegin(k)
    /\ \E hasHandle \in BOOLEAN : \E res \in QueryPermissionResults(hasHandle) :
         lastRet' = Result("queryPermission", res, <<>>)
    /\ UNCHANGED <<config, env, db, platform, now, handles, handleObjects, files, namedHandles,
                   calls, usedIds, putOrder>>

\* FSAccessAdapter.requestPermission; "ok" is ok(true), the only success it returns
RequestPermissionResults(hasHandle) ==
  IF ~hasHandle THEN {"not_supported"}
  ELSE {"ok", "permission_denied"} \cup {Catch("requestPermission", e) : e \in NativeErrors}

requestPermission(k) ==
  IF ~Implements(platform, "requestPermission") THEN FacadeResult("requestPermission", "ok", k)
  ELSE
    /\ MayBegin(k)
    /\ \E hasHandle \in BOOLEAN : \E res \in RequestPermissionResults(hasHandle) :
         lastRet' = Result("requestPermission", res, <<>>)
    /\ UNCHANGED <<config, env, db, platform, now, handles, handleObjects, files, namedHandles,
                   calls, usedIds, putOrder>>

\* a removeFromRecent that reports an identifier it does not find
removeFromRecentStrict(k) ==
  /\ MayBegin(k)
  /\ \E id \in Ids :
       /\ IF UsesHandles THEN removeHandle(id) ELSE removeFile(id)
       /\ lastRet' = Result("removeFromRecent", IF id \in DOMAIN Recent THEN "ok" ELSE "not_found", <<id>>)
  /\ UNCHANGED <<config, env, db, platform, now, calls, usedIds, putOrder>>

removeFromRecent(k) ==
  /\ MayBegin(k)
  /\ \E id \in Ids :
       /\ IF UsesHandles THEN removeHandle(id) ELSE removeFile(id)
       /\ lastRet' = Result("removeFromRecent", "ok", <<id>>)
  /\ UNCHANGED <<config, env, db, platform, now, calls, usedIds, putOrder>>

clearRecent(k) ==
  /\ MayBegin(k)
  /\ IF UsesHandles THEN clearHandles ELSE clearFiles
  /\ lastRet' = Result("clearRecent", "ok", <<>>)
  /\ UNCHANGED <<config, env, db, platform, now, calls, usedIds, putOrder>>

setNamedDirectory(k) ==
  IF ~Implements(platform, "setNamedDirectory") THEN NotSupported("setNamedDirectory", k)
  ELSE
    /\ MayBegin(k)
    /\ \E key \in Keys, name \in Names, hasHandle \in BOOLEAN :
         IF hasHandle
           THEN /\ setNamedHandle(key, [name |-> name, kind |-> "directory"])
                /\ lastRet' = Result("setNamedDirectory", "ok", <<>>)
           ELSE /\ lastRet' = Result("setNamedDirectory", "not_supported", <<>>)
                /\ UNCHANGED storeVars
    /\ UNCHANGED <<config, env, db, platform, now, calls, usedIds, putOrder>>

GetNamedDirectoryResults(key) ==
  IF key \notin DOMAIN namedHandles \/ namedHandles[key].type # "directory" THEN {"not_found"}
  ELSE PermissionResults("getNamedDirectory")

getNamedDirectory(k) ==
  IF ~Implements(platform, "getNamedDirectory") THEN NotSupported("getNamedDirectory", k)
  ELSE
    /\ MayBegin(k)
    /\ \E key \in Keys : \E res \in GetNamedDirectoryResults(key) :
         lastRet' = Result("getNamedDirectory", res, <<>>)
    /\ UNCHANGED <<config, env, db, platform, now, handles, handleObjects, files, namedHandles,
                   calls, usedIds, putOrder>>

removeNamedDirectory(k) ==
  /\ MayBegin(k)
  /\ \E key \in Keys :
       IF Implements(platform, "removeNamedDirectory") THEN removeNamedHandle(key)
       ELSE UNCHANGED storeVars
  /\ lastRet' = Result("removeNamedDirectory", "ok", <<>>)
  /\ UNCHANGED <<config, env, db, platform, now, calls, usedIds, putOrder>>

\* Date.now() advances
Tick ==
  /\ now < MaxTime
  /\ now' = now + 1
  /\ lastRet' = NoResult
  /\ UNCHANGED <<config, env, db, platform, handles, handleObjects, files, namedHandles,
                 calls, usedIds, putOrder>>

\* the application code awaiting the call resumes with the result
Deliver ==
  /\ lastRet # NoResult
  /\ lastRet' = NoResult
  /\ UNCHANGED <<config, env, db, platform, now, handles, handleObjects, files, namedHandles,
                 calls, usedIds, putOrder>>

\* new FSBridge(config): the constructor runs selectAdapter
Construct ==
  /\ platform = NoPlatform
  /\ platform' = selectAdapter(config, env)
  /\ UNCHANGED <<config, env, db, now, handles, handleObjects, files, namedHandles,
                 calls, usedIds, putOrder, lastRet>>

\* --------------------------------------------------------- specifications
\* ---------------------------------------------------------- the database

MaxVersion == 3

\* the object stores in the order onupgradeneeded creates them
StoreOrder == <<"handles", "files", "handleObjects", "namedHandles">>

StoreNames == {StoreOrder[i] : i \in 1..Len(StoreOrder)}

\* the object stores of a database that a release with this DB_VERSION created:
\* none before the first open, three in version 1, four in version 2, and
\* whatever a later release added
StoresOfVersion(v) ==
  IF v = 0 THEN {}
  ELSE IF v = 1 THEN StoreNames \ {"namedHandles"}
  ELSE IF v = DB_VERSION THEN StoreNames
  ELSE StoreNames \cup {"later"}

Disk(v) == [version |-> v, stores |-> StoresOfVersion(v)]

\* this.db is set, no open request is pending, the database is at DB_VERSION
Opened ==
  [conn |-> "open", request |-> "idle", version |-> DB_VERSION, stores |-> StoreNames,
   before |-> Disk(DB_VERSION)]

Fresh ==
  /\ now = 0
  /\ handles = Empty
  /\ handleObjects = Empty
  /\ files = Empty
  /\ namedHandles = Empty
  /\ db = Opened
  /\ calls = EmptyBag
  /\ usedIds = {}
  /\ putOrder = <<>>
  /\ lastRet = NoResult

\* a facade constructed in a browser-like host with every backend present, forced
\* to each backend in turn
Init ==
  /\ config \in {c \in Configs : c.preferredAdapter \in Platform /\ c.useNativeFSAccess}
  /\ env = Browser
  /\ platform = selectAdapter(config, env)
  /\ Fresh

\* the facade used by an application that awaits each call before the next
Next ==
  \/ openFileFail(1)
  \/ openFileDismiss(1)
  \/ openFileStore(1, Contents)
  \/ openFileNoStore(1)
  \/ saveFileNoStore(1)
  \/ saveFileStore(1, Contents)
  \/ saveFileAsFail(1)
  \/ saveFileAsStore(1, Contents)
  \/ saveFileAsNoStore(1)
  \/ openDirectoryFail(1)
  \/ openDirectoryStore(1)
  \/ openDirectoryNoStore(1)
  \/ openDirectoryUnguarded(1)
  \/ \E c \in InFlight : StorePut(c)
  \/ \E c \in InFlight : StoreFail(c)
  \/ \E c \in InFlight : PruneRead(c)
  \/ \E c \in InFlight : PruneRemove(c)
  \/ \E c \in InFlight : Iter(c, Contents)
  \/ getRecentFiles(1)
  \/ restoreFile(1)
  \/ restoreDirectory(1)
  \/ StoreLookupFail(1)
  \/ readDirectory(1)
  \/ readFileFromDirectory(1)
  \/ queryPermission(1)
  \/ requestPermission(1)
  \/ removeFromRecent(1)
  \/ clearRecent(1)
  \/ setNamedDirectory(1)
  \/ getNamedDirectory(1)
  \/ removeNamedDirectory(1)
  \/ Deliver
  \/ Tick

Spec == Init /\ [][Next]_vars

\* the store traffic of an application that keeps up to MaxCalls calls in flight:
\* the operations that write the store, over files that all hold the same bytes
\* (no store step reads them), with persistence left at its default and the
\* smallest recent list, which every capture beyond the first overflows
Blank == {0}

InitStore ==
  /\ config \in {c \in Configs : c.preferredAdapter \in Platform /\ c.useNativeFSAccess
                                  /\ c.persistByDefault /\ c.maxRecentFiles = 1}
  /\ env = Browser
  /\ platform = selectAdapter(config, env)
  /\ Fresh

NextStore ==
  \/ openFileStore(MaxCalls, Blank)
  \/ saveFileStore(MaxCalls, Blank)
  \/ saveFileAsStore(MaxCalls, Blank)
  \/ openDirectoryStore(MaxCalls)
  \/ \E c \in InFlight : StorePut(c)
  \/ \E c \in InFlight : PruneRead(c)
  \/ \E c \in InFlight : PruneRemove(c)
  \/ \E c \in InFlight : Iter(c, Blank)
  \/ removeFromRecent(MaxCalls)
  \/ clearRecent(MaxCalls)
  \/ Deliver
  \/ Tick

SpecStore == InitStore /\ [][NextStore]_vars

\* captures only, each awaited before the next, and the reading of the list:
\* putOrder is then the sequence of the captures
NextCapture ==
  \/ openFileStore(1, Blank)
  \/ saveFileAsStore(1, Blank)
  \/ openDirectoryStore(1)
  \/ \E c \in InFlight : StorePut(c)
  \/ \E c \in InFlight : PruneRead(c)
  \/ \E c \in InFlight : PruneRemove(c)
  \/ \E c \in InFlight : Iter(c, Blank)
  \/ getRecentFiles(1)
  \/ Deliver
  \/ Tick

SpecCapture == Init /\ [][NextCapture]_vars

\* ------------------------------------------------------------- openFiles
\* what adapter.openFile can hand back to the facade: a failure, one file, or a
\* collection of files (files are named by their identifiers)
FileLists == {<<>>} \cup {<<i>> : i \in Ids} \cup {<<i, j>> : i, j \in Ids}

AdapterOpenFileResults ==
  [ok : {FALSE}, code : ErrorCode, shape : {"none"}, data : {<<>>}]
    \cup [ok : {TRUE}, code : {"none"}, shape : {"value"}, data : {<<i>> : i \in Ids}]
    \cup [ok : {TRUE}, code : {"none"}, shape : {"list"}, data : FileLists]

\* { ...options, multiple: true }
OpenFilesOptions(multiple) == "true"

\* a wrapper that hands the adapter's data on as it came
OpenFilesResultUnwrapped(r) == r

\* if (!result.ok) return result; Array.isArray(result.data) ? result.data : [result.data]
OpenFilesResult(r) ==
  IF ~r.ok THEN r
  ELSE IF r.shape = "list" THEN [r EXCEPT !.data = r.data]
  ELSE [r EXCEPT !.shape = "list", !.data = <<r.data[1]>>]

\* FSBridge.openFiles(options) around one call of adapter.openFile
openFiles(k) ==
  /\ MayBegin(k)
  /\ lastRet.op # "openFiles"
  /\ \E multiple \in PersistOpt, r \in AdapterOpenFileResults :
       lastRet' = [op |-> "openFiles", caller |-> multiple, passed |-> OpenFilesOptions(multiple),
                   adapter |-> r, result |-> OpenFilesResult(r)]
  /\ UNCHANGED <<config, env, db, platform, now, handles, handleObjects, files, namedHandles,
                 calls, usedIds, putOrder>>

NextOpenFiles == openFiles(1)

SpecOpenFiles == Init /\ [][NextOpenFiles]_vars

\* ------------------------------------------- restore, with what it reads
\* what a read of the original source yields at the time of a call: its current
\* bytes, or a failure because it is gone or unreachable
Gone == 0 - 1

Sources == Contents \cup {Gone}

NoFile == [name |-> "", content |-> 0, mimeType |-> "", size |-> 0]

\* the file value built from a record of 'files'
CachedFile(rec) ==
  [name |-> rec.name, content |-> rec.content, mimeType |-> rec.mimeType, size |-> rec.size]

\* the file value built from a fresh read of the record's path
FreshFile(rec, bytes) ==
  [name |-> rec.name, content |-> bytes, mimeType |-> rec.mimeType, size |-> byteLength(bytes)]

\* one run of an operation: its result, the file value it carries, the native
\* calls it made in order, each with what it gave (<<call, outcome>>), the one
\* of them that threw ("" if none), and what the source held
Run(res, file, native, failed, source) ==
  [res |-> res, file |-> file, native |-> native, failed |-> failed, source |-> source]

\* a cache-only restore that prefers the source's bytes while the source is there
CachedRestoreRunRereading(id, source) ==
  IF id \notin DOMAIN files THEN Run("not_found", NoFile, <<>>, "", source)
  ELSE IF source = Gone
    THEN Run("ok", CachedFile(files[id]), <<<<"readFile", "throws">>>>, "readFile", source)
  ELSE Run("ok", FreshFile(files[id], source), <<<<"readFile", "ok">>>>, "", source)

\* restoreFile of PickerIDBAdapter and CapacitorAdapter: the record or not_found
CachedRestoreRun(id, source) ==
  IF id \notin DOMAIN files THEN Run("not_found", NoFile, <<>>, "", source)
  ELSE Run("ok", CachedFile(files[id]), <<>>, "", source)

\* a TauriAdapter.restoreFile that probes the path and still answers from the cache
TauriRestoreRunCachedOnly(id, source, statOk) ==
  IF id \notin DOMAIN files THEN Run("not_found", NoFile, <<>>, "", source)
  ELSE IF source = Gone
    THEN Run("ok", CachedFile(files[id]), <<<<"readFile", "throws">>>>, "readFile", source)
  ELSE IF ~statOk
    THEN Run("ok", CachedFile(files[id]), <<<<"readFile", "ok">>, <<"stat", "throws">>>>,
             "stat", source)
  ELSE Run("ok", CachedFile(files[id]), <<<<"readFile", "ok">>, <<"stat", "ok">>>>, "", source)

\* a TauriAdapter.restoreFile that reports an unreadable path instead of falling back
TauriRestoreRunNoFallback(id, source, statOk) ==
  IF id \notin DOMAIN files THEN Run("not_found", NoFile, <<>>, "", source)
  ELSE IF source = Gone
    THEN Run("not_found", NoFile, <<<<"readFile", "throws">>>>, "readFile", source)
  ELSE Run("ok", FreshFile(files[id], source), <<<<"readFile", "ok">>, <<"stat", "ok">>>>, "", source)

\* restoreFile of TauriAdapter: a record with a path that is not a directory is
\* read afresh with fs.readFile and fs.stat; any throw falls back to the record
TauriRestoreRun(id, source, statOk) ==
  IF id \notin DOMAIN files THEN Run("not_found", NoFile, <<>>, "", source)
  ELSE LET rec == files[id] IN
    IF ~Falsy(rec.path) /\ rec.mimeType # DirMime
      THEN IF source = Gone
             THEN Run("ok", CachedFile(rec), <<<<"readFile", "throws">>>>, "readFile", source)
           ELSE IF ~statOk
             THEN Run("ok", CachedFile(rec), <<<<"readFile", "ok">>, <<"stat", "throws">>>>,
                      "stat", source)
           ELSE Run("ok", FreshFile(rec, source), <<<<"readFile", "ok">>, <<"stat", "ok">>>>,
                    "", source)
      ELSE Run("ok", CachedFile(rec), <<>>, "", source)

\* the queryPermission / requestPermission prelude of the handle adapter's
\* restores: the calls made and whether permission is granted after them
PermissionCalls(q, r) ==
  IF q = "granted" THEN <<<<"queryPermission", q>>>>
  ELSE <<<<"queryPermission", q>>, <<"requestPermission", r>>>>

\* restoreFile of FSAccessAdapter
FSAccessRestoreRun(id, source, q, r, thrown) ==
  IF id \notin DOMAIN handleObjects \/ handleObjects[id].kind # "file"
    THEN Run("not_found", NoFile, <<>>, "", source)
  ELSE IF thrown # "ok"
    THEN Run(Catch("restoreFile", thrown), NoFile, <<<<"queryPermission", "throws">>>>,
             "queryPermission", source)
  ELSE IF q # "granted" /\ r # "granted"
    THEN Run("permission_denied", NoFile, PermissionCalls(q, r), "", source)
  ELSE IF source = Gone
    THEN Run(Catch("restoreFile", "NotFoundError"), NoFile,
             Append(PermissionCalls(q, r), <<"getFile", "throws">>), "getFile", source)
  ELSE Run("ok", [name |-> handleObjects[id].name, content |-> source, mimeType |-> FileMime,
                  size |-> byteLength(source)],
           Append(PermissionCalls(q, r), <<"getFile", "ok">>), "", source)

RestoreFileRuns(id, source) ==
  CASE platform = "web-fs-access" ->
         {FSAccessRestoreRun(id, source, q, r, thrown) :
            q \in PermissionStatus, r \in PermissionStatus, thrown \in {"ok"} \cup FSAccessErrors}
    [] platform = "tauri" -> {TauriRestoreRun(id, source, statOk) : statOk \in BOOLEAN}
    [] OTHER -> {CachedRestoreRun(id, source)}

\* a result together with the run that produced it
Detailed(op, ids, run) ==
  [op |-> op, res |-> run.res, ids |-> ids, by |-> "adapter", persist |-> FALSE,
   file |-> run.file, native |-> run.native, failed |-> run.failed, source |-> run.source]

\* FSBridge.restoreFile(stored), with the source in whatever state it is by now
restoreFileReading(k) ==
  /\ MayBegin(k)
  /\ \E id \in Ids, source \in Sources : \E run \in RestoreFileRuns(id, source) :
       lastRet' = Detailed("restoreFile", <<id>>, run)
  /\ UNCHANGED <<config, env, db, platform, now, handles, handleObjects, files, namedHandles,
                 calls, usedIds, putOrder>>

\* the directory value a restore returns: a name, no content
DirectoryValue(name) == [NoFile EXCEPT !.name = name, !.mimeType = DirMime]

\* restoreDirectory of FSAccessAdapter: after the permission prelude the stored
\* handle is returned as it is; no call touches the directory
FSAccessRestoreDirectoryRun(id, source, q, r, thrown) ==
  IF id \notin DOMAIN handleObjects \/ handleObjects[id].kind # "directory"
    THEN Run("not_found", NoFile, <<>>, "", source)
  ELSE IF thrown # "ok"
    THEN Run(Catch("restoreDirectory", thrown), NoFile, <<<<"queryPermission", "throws">>>>,
             "queryPermission", source)
  ELSE IF q # "granted" /\ r # "granted"
    THEN Run("permission_denied", NoFile, PermissionCalls(q, r), "", source)
  ELSE Run("ok", DirectoryValue(handleObjects[id].name), PermissionCalls(q, r), "", source)

\* restoreDirectory of TauriAdapter: fs.stat of the recorded path must report a directory
TauriRestoreDirectoryRun(id, source, isDirectory, e) ==
  IF id \notin DOMAIN files \/ files[id].mimeType # DirMime \/ Falsy(files[id].path)
    THEN Run("not_found", NoFile, <<>>, "", source)
  ELSE IF source = Gone
    THEN Run(Catch("restoreDirectory", e), NoFile, <<<<"stat", "throws">>>>, "stat", source)
  ELSE IF ~isDirectory THEN Run("not_found", NoFile, <<<<"stat", "ok">>>>, "", source)
  ELSE Run("ok", DirectoryValue(files[id].name), <<<<"stat", "ok">>>>, "", source)

RestoreDirectoryRuns(id, source) ==
  IF platform = "web-fs-access"
    THEN {FSAccessRestoreDirectoryRun(id, source, q, r, thrown) :
            q \in PermissionStatus, r \in PermissionStatus, thrown \in {"ok"} \cup FSAccessErrors}
    ELSE {TauriRestoreDirectoryRun(id, source, isDirectory, e) :
            isDirectory \in BOOLEAN, e \in MessageErrors}

\* FSBridge.restoreDirectory(stored, mode) on the adapters that define it
restoreDirectoryReading(k) ==
  /\ MayBegin(k)
  /\ Implements(platform, "restoreDirectory")
  /\ \E id \in Ids, source \in Sources : \E run \in RestoreDirectoryRuns(id, source) :
       lastRet' = Detailed("restoreDirectory", <<id>>, run)
  /\ UNCHANGED <<config, env, db, platform, now, handles, handleObjects, files, namedHandles,
                 calls, usedIds, putOrder>>

\* saveFile once the file value has a target (or the backend needs none): the
\* runs that end without a store transaction
\* The calls of a write through a handle once permission is there.
WriteCalls == <<<<"createWritable", "ok">>, <<"write", "ok">>, <<"close", "ok">>>>

\* Variant: writes whatever requestPermission answered.
FSAccessSaveRunsUnasked ==
  {Run("ok", NoFile, PermissionCalls(q, r) \o WriteCalls, "", 0) :
     q \in PermissionStatus, r \in PermissionStatus}

\* FSAccessAdapter.saveFile on a file value with a handle: each run is the
\* result with the native calls made, the environment choosing every outcome.
FSAccessSaveRuns ==
  {Run(Catch("saveFile", e), NoFile, <<<<"queryPermission", "throws">>>>, "queryPermission", 0) :
     e \in FSAccessErrors}
  \cup {Run(Catch("saveFile", e), NoFile,
             <<<<"queryPermission", q>>, <<"requestPermission", "throws">>>>,
             "requestPermission", 0) :
          q \in PermissionStatus \ {"granted"}, e \in FSAccessErrors}
  \cup {Run("permission_denied", NoFile, PermissionCalls(q, r), "", 0) :
          q \in PermissionStatus \ {"granted"}, r \in PermissionStatus \ {"granted"}}
  \cup {Run(Catch("saveFile", e), NoFile,
             Append(PermissionCalls(q, "granted"), <<"createWritable", "throws">>),
             "createWritable", 0) :
          q \in PermissionStatus, e \in FSAccessErrors}
  \cup {Run(Catch("saveFile", e), NoFile,
             PermissionCalls(q, "granted")
               \o <<<<"createWritable", "ok">>, <<"write", "throws">>>>,
             "write", 0) :
          q \in PermissionStatus, e \in FSAccessErrors}
  \cup {Run(Catch("saveFile", e), NoFile,
             PermissionCalls(q, "granted")
               \o <<<<"createWritable", "ok">>, <<"write", "ok">>, <<"close", "throws">>>>,
             "close", 0) :
          q \in PermissionStatus, e \in FSAccessErrors}
  \cup {Run("ok", NoFile, PermissionCalls(q, "granted") \o WriteCalls, "", 0) :
          q \in PermissionStatus}

SaveFileRunsWithTarget(persist) ==
  CASE platform = "web-fs-access" -> FSAccessSaveRuns
    [] platform \in {"tauri", "capacitor"} ->
         {Run(Catch("saveFile", e), NoFile, <<<<"writeFile", "throws">>>>, "writeFile", 0) :
            e \in MessageErrors}
         \cup (IF persist THEN {} ELSE {Run("ok", NoFile, <<<<"writeFile", "ok">>>>, "", 0)})
    [] OTHER ->
         IF persist THEN {} ELSE {Run("ok", NoFile, <<<<"triggerDownload", "ok">>>>, "", 0)}

\* a saveFile without the test of file.handle / file.path
SaveFileRunsUnchecked(hasTarget, persist) == SaveFileRunsWithTarget(persist)

\* saveFile(file, content): FSAccessAdapter wants file.handle, TauriAdapter file.path
SaveFileRuns(hasTarget, persist) ==
  IF ~hasTarget /\ platform \in {"web-fs-access", "tauri"}
    THEN {Run("not_supported", NoFile, <<>>, "", 0)}
    ELSE SaveFileRunsWithTarget(persist)

\* FSBridge.saveFile(file, content, options) returning without a store
\* transaction, with the native calls it made and whether the file had a target
saveFileWriting(k) ==
  /\ MayBegin(k)
  /\ \E id \in usedIds, hasTarget \in BOOLEAN, opt \in PersistOpt :
       \E run \in SaveFileRuns(hasTarget, ShouldPersist(opt)) :
         lastRet' = [Detailed("saveFile", <<id>>, run)
                       EXCEPT !.persist = (run.res = "ok" /\ ShouldPersist(opt))]
                    @@ [target |-> hasTarget]
  /\ UNCHANGED <<config, env, db, platform, now, handles, handleObjects, files, namedHandles,
                 calls, usedIds, putOrder>>

\* ---- store writes that fail ----

NextWrite ==
  \/ openFileStore(1, Contents)
  \/ openDirectoryStore(1)
  \/ saveFileStore(1, Contents)
  \/ saveFileAsStore(1, Contents)
  \/ \E c \in InFlight : StorePut(c)
  \/ \E c \in InFlight : StoreFail(c)
  \/ \E c \in InFlight : StoreAbort(c)
  \/ \E c \in InFlight : PruneRead(c)
  \/ \E c \in InFlight : PruneRemove(c)
  \/ \E c \in InFlight : Iter(c, Contents)
  \/ Deliver
  \/ Tick

SpecWrite == Init /\ [][NextWrite]_vars

\* ---- store writes that have to settle ----

\* a step of a call that is suspended in the store: the event loop runs the
\* callback of whatever its transaction or its pruning did
StoreStep(c) ==
  \/ StorePut(c)
  \/ StoreFail(c)
  \/ StoreAbort(c)
  \/ PruneRead(c)
  \/ PruneRemove(c)
  \/ PruneFail(c)
  \/ Iter(c, Blank)

NextSettle ==
  \/ openFileStore(1, Blank)
  \/ saveFileStore(1, Blank)
  \/ \E c \in InFlight : StoreStep(c)
  \/ Deliver

\* every event the database raises is handled in the end
SpecSettle ==
  InitStore /\ [][NextSettle]_vars /\ WF_vars(\E c \in InFlight : StoreStep(c))

\* ---- saving again under an identifier of the list, and restoring it ----

NextResave ==
  \/ openFileStore(1, Contents)
  \/ saveFileStore(1, Contents)
  \/ \E c \in InFlight : StorePut(c)
  \/ \E c \in InFlight : PruneRead(c)
  \/ \E c \in InFlight : PruneRemove(c)
  \/ \E c \in InFlight : Iter(c, Contents)
  \/ restoreFileReading(1)
  \/ Deliver
  \/ Tick

SpecResave == Init /\ [][NextResave]_vars

\* ---- named directories next to the recent list ----

\* keys are strings like identifiers: a key can be the identifier of a recent item
NamedKeys == Ids

\* the handles an application can hand over; a caller without types can pass a
\* file handle
GivenHandles == {[name |-> n, kind |-> k] : n \in {"a", "b"}, k \in {"directory", "file"}}

\* the record setNamedHandle puts under the key
NamedRecord(handle) ==
  [handle |-> handle, name |-> handle.name, type |-> handle.kind, storedAt |-> now]

\* a record that drops the handle's own name for the key's first holder
NamedRecordKeepingFirst(key, handle) ==
  IF key \in DOMAIN namedHandles THEN namedHandles[key] ELSE NamedRecord(handle)

\* the record under the key after setNamedHandle(key, handle)
NamedRecordAfter(key, handle) == NamedRecord(handle)

\* FSBridge.setNamedDirectory(key, directory) on the handle backend
setNamedDirectoryKeyed(k) ==
  /\ MayBegin(k)
  /\ Implements(platform, "setNamedDirectory")
  /\ \E key \in NamedKeys, handle \in GivenHandles, hasHandle \in BOOLEAN, res \in {"ok", "io_error"} :
       IF ~hasHandle
         THEN /\ lastRet' = Result("setNamedDirectory", "not_supported", <<>>)
                            @@ [key |-> key, handle |-> handle]
              /\ UNCHANGED storeVars
       ELSE IF res = "ok"
         THEN /\ namedHandles' = Put(namedHandles, key, NamedRecordAfter(key, handle))
              /\ UNCHANGED <<handles, handleObjects, files>>
              /\ lastRet' = Result("setNamedDirectory", "ok", <<>>)
                            @@ [key |-> key, handle |-> handle]
         ELSE /\ lastRet' = Result("setNamedDirectory", "io_error", <<>>)
                            @@ [key |-> key, handle |-> handle]
              /\ UNCHANGED storeVars
  /\ UNCHANGED <<config, env, db, platform, now, calls, usedIds, putOrder>>

\* getNamedDirectory of FSAccessAdapter: the record, its type, the permission
\* prelude, then { id: key, name: stored.name, handle }
GetNamedDirectoryRun(key, q, r, thrown) ==
  IF key \notin DOMAIN namedHandles \/ namedHandles[key].type # "directory"
    THEN Run("not_found", NoFile, <<>>, "", 0)
  ELSE IF thrown # "ok"
    THEN Run(Catch("getNamedDirectory", thrown), NoFile, <<<<"queryPermission", "throws">>>>,
             "queryPermission", 0)
  ELSE IF q # "granted" /\ r # "granted"
    THEN Run("permission_denied", NoFile, PermissionCalls(q, r), "", 0)
  ELSE Run("ok", DirectoryValue(namedHandles[key].name), PermissionCalls(q, r), "", 0)

\* FSBridge.getNamedDirectory(key, mode)
getNamedDirectoryKeyed(k) ==
  /\ MayBegin(k)
  /\ Implements(platform, "getNamedDirectory")
  /\ \E key \in NamedKeys, q \in PermissionStatus, r \in PermissionStatus,
        thrown \in {"ok"} \cup FSAccessErrors :
       LET run == GetNamedDirectoryRun(key, q, r, thrown)
       IN lastRet' = Detailed("getNamedDirectory", <<>>, run)
                     @@ [key |-> key,
                         dir |-> IF run.res = "ok"
                                   THEN [id |-> key, name |-> namedHandles[key].name,
                                         handle |-> namedHandles[key].handle]
                                   ELSE [id |-> 0, name |-> "", handle |-> [name |-> "", kind |-> ""]]]
  /\ UNCHANGED <<config, env, db, platform, now, handles, handleObjects, files, namedHandles,
                 calls, usedIds, putOrder>>

\* FSBridge.removeNamedDirectory(key)
removeNamedDirectoryKeyed(k) ==
  /\ MayBegin(k)
  /\ Implements(platform, "removeNamedDirectory")
  /\ \E key \in NamedKeys :
       /\ removeNamedHandle(key)
       /\ lastRet' = Result("removeNamedDirectory", "ok", <<>>) @@ [key |-> key]
  /\ UNCHANGED <<config, env, db, platform, now, calls, usedIds, putOrder>>

NextNamed ==
  \/ setNamedDirectoryKeyed(1)
  \/ getNamedDirectoryKeyed(1)
  \/ removeNamedDirectoryKeyed(1)
  \/ openDirectoryStore(1)
  \/ \E c \in InFlight : StorePut(c)
  \/ \E c \in InFlight : PruneRead(c)
  \/ \E c \in InFlight : PruneRemove(c)
  \/ removeFromRecent(1)
  \/ Deliver

SpecNamed == InitStore /\ [][NextNamed]_vars

\* ---- opening the database: getDB, the upgrade, the first transaction ----

\* the stores the onupgradeneeded of the first release creates where missing
MissingInVersion1(stores) ==
  SelectSeq(SubSeq(StoreOrder, 1, 3), LAMBDA name : name \notin stores)

\* the stores onupgradeneeded creates: each of the four the database lacks
Missing(stores) == SelectSeq(StoreOrder, LAMBDA name : name \notin stores)

\* what a database left by an earlier session holds: nothing, or one recent item
\* (and, from version 2 on, possibly one named directory)
LeftBehind(v, kept, named) ==
  LET item == CaptureItem("openFile", 1, "a", 0)
      has == v >= 1 /\ kept
  IN /\ handles = IF has /\ UsesHandles THEN Put(Empty, 1, StoredHandleOf(item)) ELSE Empty
     /\ handleObjects = IF has /\ UsesHandles THEN Put(Empty, 1, HandleOf(item)) ELSE Empty
     /\ files = IF has /\ ~UsesHandles THEN Put(Empty, 1, StoredFileOf(item)) ELSE Empty
     /\ namedHandles =
          IF v >= DB_VERSION /\ named
            THEN Put(Empty, "out", [handle |-> [name |-> "a", kind |-> "directory"],
                                    name |-> "a", type |-> "directory", storedAt |-> 0])
            ELSE Empty
     /\ usedIds = IF has THEN {1} ELSE {}
     /\ putOrder = IF has THEN <<1>> ELSE <<>>

\* a new instance (this.db = null) over a database of any version
InitUpgrade ==
  /\ config \in {c \in Configs : c.preferredAdapter \in Platform /\ c.useNativeFSAccess
                                  /\ c.persistByDefault /\ c.maxRecentFiles = 1}
  /\ env = Browser
  /\ platform = selectAdapter(config, env)
  /\ now = 0
  /\ calls = EmptyBag
  /\ lastRet = NoResult
  /\ \E v \in 0..MaxVersion, kept \in BOOLEAN, named \in BOOLEAN :
       /\ db = [conn |-> "null", request |-> "idle", version |-> v,
                stores |-> StoresOfVersion(v), before |-> Disk(v)]
       /\ LeftBehind(v, kept, named)

\* getDB(): this.db if it is set, else a request indexedDB.open(dbName, DB_VERSION)
\* whose onsuccess the caller awaits
getDB(call) ==
  IF db.conn = "open"
    THEN /\ calls' = Enter([call EXCEPT !.pc = "put"])
         /\ UNCHANGED db
    ELSE /\ calls' = Enter([call EXCEPT !.pc = "getDB"])
         /\ db' = [db EXCEPT !.request = "requested"]

\* openFile({ persist: true }) of one file, up to the getDB() of its store write
openFileGetDB(k, bytes) ==
  /\ MayBegin(k)
  /\ \E id \in Ids, name \in Names, content \in bytes :
       /\ generateId(id)
       /\ usedIds' = usedIds \cup {id}
       /\ getDB(Suspend("openFile", "getDB", 0, id, CaptureItem("openFile", id, name, content), <<>>))
       /\ lastRet' = NoResult
  /\ UNCHANGED <<config, env, platform, now, handles, handleObjects, files, namedHandles, putOrder>>

\* setNamedDirectory(key, directory) with a handle, up to the getDB() of setNamedHandle
setNamedDirectoryGetDB(k) ==
  /\ MayBegin(k)
  /\ Implements(platform, "setNamedDirectory")
  /\ \E name \in Names :
       getDB(Suspend("setNamedDirectory", "getDB", 0, 0, OpenDirectoryItem(0, name), <<>>))
  /\ lastRet' = NoResult
  /\ UNCHANGED <<config, env, platform, now, handles, handleObjects, files, namedHandles,
                 usedIds, putOrder>>

\* request.onupgradeneeded fires: the database on disk is older than DB_VERSION
\* and the versionchange transaction begins
onupgradeneeded ==
  /\ db.request = "requested"
  /\ db.version < DB_VERSION
  /\ db' = [db EXCEPT !.request = "upgrading", !.version = DB_VERSION]
  /\ UNCHANGED <<config, env, platform, now, handles, handleObjects, files, namedHandles,
                 calls, usedIds, putOrder, lastRet>>

\* one `if (!db.objectStoreNames.contains(..)) db.createObjectStore(..)` of the handler
createObjectStore ==
  /\ db.request = "upgrading"
  /\ Missing(db.stores) # <<>>
  /\ db' = [db EXCEPT !.stores = @ \cup {Head(Missing(db.stores))}]
  /\ UNCHANGED <<config, env, platform, now, handles, handleObjects, files, namedHandles,
                 calls, usedIds, putOrder, lastRet>>

\* the versionchange transaction aborts: the database is as before the request,
\* request.onerror rejects getDB() and the rejection reaches the adapter's catch
upgradeAborts(c) ==
  /\ c.pc = "getDB"
  /\ db.request = "upgrading"
  /\ db' = [db EXCEPT !.request = "idle", !.version = db.before.version,
                      !.stores = db.before.stores]
  /\ Return(c, c.op, Catch(c.op, "AbortError"), <<>>)
  /\ UNCHANGED <<config, env, platform, now, handles, handleObjects, files, namedHandles,
                 usedIds, putOrder>>

\* the database on disk is newer than DB_VERSION: request.onerror with a VersionError
versionError(c) ==
  /\ c.pc = "getDB"
  /\ db.request = "requested"
  /\ db.version > DB_VERSION
  /\ db' = [db EXCEPT !.request = "idle"]
  /\ Return(c, c.op, Catch(c.op, "VersionError"), <<>>)
  /\ UNCHANGED <<config, env, platform, now, handles, handleObjects, files, namedHandles,
                 usedIds, putOrder>>

\* request.onsuccess, after the handler has run where it had to: this.db is set
\* and the operation that awaited getDB() goes on to its transaction
onsuccess(c) ==
  /\ c.pc = "getDB"
  /\ \/ db.request = "requested" /\ db.version = DB_VERSION
     \/ db.request = "upgrading" /\ Missing(db.stores) = <<>>
  /\ db' = [db EXCEPT !.conn = "open", !.request = "idle"]
  /\ calls' = Become(c, [c EXCEPT !.pc = "put"])
  /\ lastRet' = NoResult
  /\ UNCHANGED <<config, env, platform, now, handles, handleObjects, files, namedHandles,
                 usedIds, putOrder>>

\* the transaction of setNamedHandle
NamedPut(c) ==
  /\ c.op = "setNamedDirectory"
  /\ c.pc = "put"
  /\ setNamedHandle("out", HandleOf(c.item))
  /\ Return(c, c.op, "ok", <<>>)
  /\ UNCHANGED <<config, env, db, platform, now, usedIds, putOrder>>

NextUpgrade ==
  \/ openFileGetDB(1, Blank)
  \/ setNamedDirectoryGetDB(1)
  \/ onupgradeneeded
  \/ createObjectStore
  \/ \E c \in InFlight : upgradeAborts(c)
  \/ \E c \in InFlight : versionError(c)
  \/ \E c \in InFlight : onsuccess(c)
  \/ \E c \in InFlight : c.op = "openFile" /\ StorePut(c)
  \/ \E c \in InFlight : PruneRead(c)
  \/ \E c \in InFlight : PruneRemove(c)
  \/ \E c \in InFlight : NamedPut(c)
  \/ Deliver

SpecUpgrade == InitUpgrade /\ [][NextUpgrade]_vars

\* ---- directories: what a listing and a load read ----

MaxChildren == 2

ChildName(i) == IF i = 1 THEN "a" ELSE "b"

\* what the native directory can hold at position i: a file with some bytes, or
\* a subdirectory
ChildAt(i) ==
  {[name |-> ChildName(i), kind |-> "file", bytes |-> b] : b \in Contents}
  \cup {[name |-> ChildName(i), kind |-> "directory", bytes |-> 0]}

Children ==
  UNION {{s \in [1..n -> UNION {ChildAt(i) : i \in 1..MaxChildren}] :
            \A i \in 1..n : s[i] \in ChildAt(i)} : n \in 0..MaxChildren}

\* one element of a listing: `fields` are the properties the value carries
Entry(name, kind, size, content, fields) ==
  [name |-> name, kind |-> kind, size |-> size, content |-> content, fields |-> fields]

Listing(res, entries, native, children) ==
  [res |-> res, entries |-> entries, native |-> native, children |-> children]

\* FSBridgeEntry of FSAccessAdapter.readDirectory: size and lastModified come
\* from the File that entry.getFile() returns, content is not asked for
FSAccessEntry(child) ==
  IF child.kind = "file"
    THEN Entry(child.name, "file", byteLength(child.bytes), 0,
               {"name", "kind", "size", "lastModified", "handle"})
    ELSE Entry(child.name, "directory", 0, 0, {"name", "kind", "handle"})

\* FSBridgeEntry of TauriAdapter.readDirectory: a file whose fs.stat throws is
\* listed without size
TauriEntry(child, statOk) ==
  IF child.kind = "file" /\ statOk
    THEN Entry(child.name, "file", byteLength(child.bytes), 0,
               {"name", "kind", "size", "lastModified", "path"})
    ELSE Entry(child.name, child.kind, 0, 0, {"name", "kind", "path"})

\* FSBridgeEntry of CapacitorAdapter.readDirectory, from the readdir result alone
CapacitorEntry(child) == TauriEntry(child, TRUE)

\* FSBridgeFile of the readDirectory in adapters/fs-access.ts: the bytes of the file
EagerEntry(child) ==
  Entry(child.name, "file", 0, child.bytes,
        {"id", "name", "content", "mimeType", "lastModified", "handle"})

\* the native calls a listing makes for its children, in order
RECURSIVE Flatten(_, _)
Flatten(seqs, i) == IF i > Len(seqs) THEN <<>> ELSE seqs[i] \o Flatten(seqs, i + 1)

PerChildCalls(children, callsOf(_, _)) ==
  Flatten([i \in 1..Len(children) |-> callsOf(children[i], i)], 1)

FSAccessChildCalls(child, i) ==
  IF child.kind = "file" THEN <<<<"getFile", "ok">>>> ELSE <<>>

\* readDirectory of FSAccessAdapter
FSAccessListing(children, hasRef, thrown) ==
  IF ~hasRef THEN Listing("not_supported", <<>>, <<>>, children)
  ELSE IF thrown # "ok"
    THEN Listing(Catch("readDirectory", thrown), <<>>, <<<<"values", "throws">>>>, children)
  ELSE Listing("ok", [i \in 1..Len(children) |-> FSAccessEntry(children[i])],
               <<<<"values", "ok">>>> \o PerChildCalls(children, FSAccessChildCalls),
               children)

\* readDirectory of TauriAdapter; `unstatted` are the positions whose fs.stat throws
TauriListing(children, hasRef, thrown, unstatted) ==
  IF ~hasRef THEN Listing("not_supported", <<>>, <<>>, children)
  ELSE IF thrown # "ok"
    THEN Listing(Catch("readDirectory", thrown), <<>>, <<<<"readDir", "throws">>>>, children)
  ELSE LET statCalls(child, i) ==
             IF child.kind # "file" THEN <<>>
             ELSE IF i \in unstatted THEN <<<<"stat", "throws">>>> ELSE <<<<"stat", "ok">>>>
       IN Listing("ok", [i \in 1..Len(children) |-> TauriEntry(children[i], i \notin unstatted)],
                  <<<<"readDir", "ok">>>> \o PerChildCalls(children, statCalls), children)

\* readDirectory of CapacitorAdapter: no test of directory.path, one readdir
CapacitorListing(children, thrown) ==
  IF thrown # "ok"
    THEN Listing(Catch("readDirectory", thrown), <<>>, <<<<"readdir", "throws">>>>, children)
  ELSE Listing("ok", [i \in 1..Len(children) |-> CapacitorEntry(children[i])],
               <<<<"readdir", "ok">>>>, children)

ReadDirectoryListings(children, hasRef) ==
  CASE platform = "web-fs-access" ->
         {FSAccessListing(children, hasRef, thrown) : thrown \in {"ok"} \cup FSAccessErrors}
    [] platform = "tauri" ->
         {TauriListing(children, hasRef, thrown, unstatted) :
            thrown \in {"ok"} \cup MessageErrors, unstatted \in SUBSET (1..MaxChildren)}
    [] OTHER ->
         {CapacitorListing(children, thrown) : thrown \in {"ok"} \cup MessageErrors}

\* a listing as a result
Listed(run) ==
  [op |-> "readDirectory", res |-> run.res, ids |-> <<>>, by |-> "adapter", persist |-> FALSE,
   entries |-> run.entries, native |-> run.native, children |-> run.children]

\* FSBridge.readDirectory(directory) over a native directory with some children
readDirectoryListing(k) ==
  /\ MayBegin(k)
  /\ Implements(platform, "readDirectory")
  /\ \E children \in Children, hasRef \in BOOLEAN :
       \E run \in ReadDirectoryListings(children, hasRef) : lastRet' = Listed(run)
  /\ UNCHANGED <<config, env, db, platform, now, handles, handleObjects, files, namedHandles,
                 calls, usedIds, putOrder>>

EagerChildCalls(child, i) ==
  IF child.kind = "file" THEN <<<<"getFile", "ok">>, <<"arrayBuffer", "ok">>>> ELSE <<>>

IsFileChild(child) == child.kind = "file"

\* readDirectory of the FSAccessAdapter in adapters/fs-access.ts: every file is
\* read whole, subdirectories are passed over
EagerListing(children, hasRef, thrown) ==
  IF ~hasRef THEN Listing("not_supported", <<>>, <<>>, children)
  ELSE IF thrown # "ok"
    THEN Listing(Catch("readDirectory", thrown), <<>>, <<<<"values", "throws">>>>, children)
  ELSE LET found == SelectSeq(children, IsFileChild)
       IN Listing("ok", [i \in 1..Len(found) |-> EagerEntry(found[i])],
                  <<<<"values", "ok">>>> \o PerChildCalls(children, EagerChildCalls),
                  children)

\* FSBridge.readDirectory(directory) through that adapter; each file takes an id
readDirectoryEager(k) ==
  /\ MayBegin(k)
  /\ platform = "web-fs-access"
  /\ \E children \in Children, hasRef \in BOOLEAN, thrown \in {"ok"} \cup FSAccessErrors :
       LET run == EagerListing(children, hasRef, thrown)
       IN \E S \in SUBSET (Ids \ usedIds) :
            /\ Cardinality(S) = Len(run.entries)
            /\ usedIds' = usedIds \cup S
            /\ lastRet' = Listed(run)
  /\ UNCHANGED <<config, env, db, platform, now, handles, handleObjects, files, namedHandles,
                 calls, putOrder>>

\* what readFileFromDirectory tests before it reads
IsFileEntry(entry) == "kind" \in entry.fields /\ entry.kind = "file"

HasRef(entry) ==
  IF platform = "web-fs-access" THEN "handle" \in entry.fields ELSE "path" \in entry.fields

\* the file value a load returns: the entry's name, the bytes just read
LoadedFile(entry, bytes) ==
  [name |-> entry.name, content |-> bytes, mimeType |-> FileMime, size |-> byteLength(bytes)]

\* readFileFromDirectory of FSAccessAdapter (getFile, arrayBuffer), TauriAdapter
\* (fs.readFile) and CapacitorAdapter (Filesystem.readFile)
LoadRuns(entry, source) ==
  IF ~HasRef(entry) \/ ~IsFileEntry(entry) THEN {Run("not_supported", NoFile, <<>>, "", source)}
  ELSE IF platform = "web-fs-access"
    THEN IF source = Gone
           THEN {Run(Catch("readFileFromDirectory", e), NoFile, <<<<"getFile", "throws">>>>,
                     "getFile", source) : e \in FSAccessErrors}
           ELSE {Run("ok", LoadedFile(entry, source),
                     <<<<"getFile", "ok">>, <<"arrayBuffer", "ok">>>>, "", source)}
  ELSE IF source = Gone
    THEN {Run(Catch("readFileFromDirectory", e), NoFile, <<<<"readFile", "throws">>>>,
              "readFile", source) : e \in MessageErrors}
  ELSE {Run("ok", LoadedFile(entry, source), <<<<"readFile", "ok">>>>, "", source)}

\* FSBridge.readFileFromDirectory(directory, entry): the application resumes
\* with a listing and hands back one of its entries, as listed or stripped of
\* its handle / path, the file being by now whatever it is
readFileFromDirectoryLoading(k) ==
  /\ BagCardinality(calls) < k
  /\ Implements(platform, "readFileFromDirectory")
  /\ lastRet.op = "readDirectory" /\ lastRet.res = "ok" /\ "entries" \in DOMAIN lastRet
  /\ \E i \in 1..Len(lastRet.entries), asListed \in BOOLEAN, source \in Sources, id \in Ids :
       LET entry == lastRet.entries[i]
           given == IF asListed THEN entry
                    ELSE [entry EXCEPT !.fields = @ \ {"handle", "path"}]
       IN \E run \in LoadRuns(given, IF entry.kind = "file" THEN source ELSE Gone) :
            /\ run.res = "ok" => generateId(id)
            /\ usedIds' = IF run.res = "ok" THEN usedIds \cup {id} ELSE usedIds
            /\ lastRet' = Detailed("readFileFromDirectory",
                                   IF run.res = "ok" THEN <<id>> ELSE <<>>, run)
                          @@ [entry |-> given]
  /\ UNCHANGED <<config, env, db, platform, now, handles, handleObjects, files, namedHandles,
                 calls, putOrder>>

NextDirectory ==
  \/ readDirectoryListing(1)
  \/ readDirectoryEager(1)
  \/ readFileFromDirectoryLoading(1)
  \/ Deliver

SpecDirectory == Init /\ [][NextDirectory]_vars

NextRestore ==
  \/ openFileStore(1, Contents)
  \/ openDirectoryStore(1)
  \/ saveFileWriting(1)
  \/ saveFileStore(1, Contents)
  \/ restoreDirectoryReading(1)
  \/ \E c \in InFlight : StorePut(c)
  \/ \E c \in InFlight : PruneRead(c)
  \/ \E c \in InFlight : PruneRemove(c)
  \/ \E c \in InFlight : Iter(c, Contents)
  \/ restoreFileReading(1)
  \/ Deliver

SpecRestore == Init /\ [][NextRestore]_vars

\* the constructor alone, over every configuration and host
InitSelect ==
  /\ config \in Configs
  /\ env \in Envs
  /\ platform = NoPlatform
  /\ Fresh

NextSelect == Construct

SpecSelect == InitSelect /\ [][NextSelect]_vars

\* ------------------------------------------------------------------ claims
Count == Cardinality(DOMAIN Recent)

\* a call is between its insertion and the end of the pruning that follows it
Pruning(c) == c.pc \in {"prune", "remove"}

\* the number of calls that are pruning
PruningCalls == BagCardinality([c \in {d \in InFlight : Pruning(d)} |-> calls[c]])

Min(a, b) == IF a <= b THEN a ELSE b

\* the last n elements of s
LastN(s, n) == SubSeq(s, Len(s) - n + 1, Len(s))

\* C1: after a sequence of N awaited captures with maximum M, getRecentFiles
\* returns exactly the min(N, M) most recently captured entries, most recent first
C1_RecentAreTheLastCaptures ==
  lastRet.op = "getRecentFiles" =>
    lastRet.ids = Reverse(LastN(putOrder, Min(Len(putOrder), config.maxRecentFiles)))

\* an entry a running pruning is about to remove is no younger than any entry
\* the pruning keeps
EvictsOldestFirst ==
  \A c \in InFlight : c.pc = "remove" =>
    \A r \in Range(c.toRemove) \cap DOMAIN Recent :
      \A q \in DOMAIN Recent \ Range(c.toRemove) : Recent[r].storedAt <= Recent[q].storedAt

CaptureReturned ==
  /\ lastRet.op \in {"openFile", "saveFile", "saveFileAs", "openDirectory"}
  /\ lastRet.res = "ok"

\* C3: when a capture that inserted into the recent list returns and no other
\* call is in flight, its pruning has completed: the list holds at most
\* maxRecentFiles entries
C3_PrunedAtReturn == CaptureReturned /\ calls = EmptyBag => Count <= config.maxRecentFiles

\* a two-file selection returned with the list at its maximum and nothing in flight
C3_Witness ==
  /\ lastRet.op = "openFile" /\ lastRet.res = "ok" /\ Len(lastRet.ids) = MaxSelect
  /\ calls = EmptyBag
  /\ Count = config.maxRecentFiles

\* C4 as stated: in every reachable state, concurrent captures included, the
\* recent list holds at most maxRecentFiles + 1 entries
C4_AtMostOneAbove == Count <= config.maxRecentFiles + 1

\* C4 as the code has it: the recent list exceeds maxRecentFiles by at most one
\* entry per capture that is between its insertion and the end of its pruning
C4_AtMostOneAbovePerPruning == Count <= config.maxRecentFiles + PruningCalls

\* every call in flight is between its insertion and the end of its pruning
C4_Witness ==
  /\ PruningCalls = MaxCalls
  /\ Count = config.maxRecentFiles + MaxCalls

\* position of x in s
IndexOf(s, x) == CHOOSE i \in 1..Len(s) : s[i] = x

ListsEveryEntryOnce(ids) ==
  /\ Range(ids) = DOMAIN Recent
  /\ Len(ids) = Cardinality(DOMAIN Recent)

C6_RestoreLeavesStore ==
  [][lastRet'.op \in {"restoreFile", "restoreDirectory"} =>
       UNCHANGED storeVars /\ RecentIds' = RecentIds]_vars

\* a successful restore on the path backend of an entry cached at an earlier tick
C6_Witness ==
  /\ lastRet.op = "restoreFile" /\ lastRet.res = "ok"
  /\ platform = "tauri"
  /\ files[lastRet.ids[1]].storedAt < now

\* C7: removeFromRecent of an identifier that is not in the store returns without
\* an error and leaves every collection unchanged, and removeFromRecent is
\* idempotent: repeating it on the state it produced changes nothing
C7_RemoveAbsentIsNoop ==
  [][lastRet'.op = "removeFromRecent" =>
       /\ lastRet'.res = "ok"
       /\ lastRet'.ids[1] \notin DOMAIN Recent => UNCHANGED storeVars
       /\ Delete(handles', lastRet'.ids[1]) = handles'
       /\ Delete(handleObjects', lastRet'.ids[1]) = handleObjects'
       /\ Delete(files', lastRet'.ids[1]) = files']_vars

\* removeFromRecent returned for an identifier that is absent while others are stored
C7_Witness ==
  /\ lastRet.op = "removeFromRecent"
  /\ lastRet.ids[1] \in usedIds
  /\ lastRet.ids[1] \notin Range(putOrder)
  /\ Count > 0

\* C8: named-directory records change only through setNamedDirectory and
\* removeNamedDirectory, and clearRecent empties the item references and their
\* paired records
C8_NamedOnlyByNamedOps ==
  [][/\ namedHandles' # namedHandles =>
          lastRet'.op \in {"setNamedDirectory", "removeNamedDirectory"}
     /\ lastRet'.op = "clearRecent" =>
          /\ RecentIds' = <<>>
          /\ UsesHandles => handleObjects' = Empty]_vars

\* clearRecent returned with a named directory on record
C8_Witness ==
  /\ lastRet.op = "clearRecent"
  /\ namedHandles # Empty
  /\ putOrder # <<>>

\* C9: on the handle backend the identifiers of 'handles' and of 'handleObjects'
\* are the same set in every reachable state
C9_HandlesPaired == UsesHandles => DOMAIN handles = DOMAIN handleObjects

\* a pruning of the handle backend between two of its removals
C9_Witness ==
  /\ UsesHandles
  /\ \E c \in InFlight : c.pc = "remove" /\ Len(c.toRemove) = 1 /\ Len(putOrder) = MaxIds
  /\ Count > 0

\* C10: a configured preferredAdapter whose self-test passes is the selected
\* adapter, whatever the priority order and the other self-tests say
C10_PreferredSelected ==
  /\ platform # NoPlatform
  /\ config.preferredAdapter \in Platform
  /\ isSupported(config.preferredAdapter, env) = "true"
  => platform = config.preferredAdapter

\* web-fs-access preferred and selected with useNativeFSAccess false in a Tauri host
C10_Witness ==
  /\ platform = "web-fs-access"
  /\ config.preferredAdapter = "web-fs-access"
  /\ ~config.useNativeFSAccess
  /\ "__TAURI__" \in env.globals

\* the backends of `order` whose self-test returns true in host e, in that order
Passing(order, e) == SelectSeq(order, LAMBDA p : isSupported(p, e) = "true")

\* the selection falls to the priority order: no backend is preferred, or the
\* preferred backend's self-test does not pass
FallsToOrder ==
  \/ config.preferredAdapter \notin Platform
  \/ isSupported(config.preferredAdapter, env) # "true"

\* C11: when no backend is preferred or the preferred self-test fails, the facade
\* selects the first backend of tauri, capacitor, web-fs-access, web-fallback
\* whose self-test passes, skipping web-fs-access when useNativeFSAccess is false
C11_FirstPassingInOrder ==
  platform # NoPlatform /\ FallsToOrder =>
    /\ Passing(ProbeOrder(config), env) # <<>> => platform = Head(Passing(ProbeOrder(config), env))
    /\ ~config.useNativeFSAccess => platform # "web-fs-access"

\* C12: constructing the facade always yields a backend: the selection never
\* fails, the selected backend passed its self-test or is web-fallback, and it is
\* web-fallback when no self-test passes
C12_SelectionAlwaysEnds ==
  platform # NoPlatform =>
    /\ platform \in Platform
    /\ isSupported(platform, env) = "true" \/ platform = "web-fallback"
    /\ (\A p \in Platform : isSupported(p, env) # "true") => platform = "web-fallback"

\* the optional operations for which the facade answers not_supported itself
GuardedOps ==
  {"openDirectory", "readDirectory", "readFileFromDirectory", "restoreDirectory",
   "setNamedDirectory", "getNamedDirectory"}

\* C13: for every optional operation the selected adapter does not implement
\* the facade returns not_supported itself, without a call of the adapter and
\* without a change of the store
C13_MissingIsNotSupported ==
  [][lastRet'.op \in GuardedOps /\ ~Implements(platform, lastRet'.op) =>
       /\ lastRet'.res = "not_supported"
       /\ lastRet'.by = "facade"
       /\ UNCHANGED <<handles, handleObjects, files, namedHandles, calls, usedIds>>]_vars

\* readDirectory on web-fallback answered by the facade, with entries in the store
C13_Witness ==
  /\ platform = "web-fallback"
  /\ lastRet.op = "readDirectory" /\ lastRet.res = "not_supported" /\ lastRet.by = "facade"
  /\ Count > 0

\* C14: on every backend other than web-fs-access queryPermission returns
\* 'granted' and requestPermission returns success, answered by the facade
\* without a call of the adapter and without a change of any state
C14_PermissionsGrantedElsewhere ==
  [][lastRet'.op \in {"queryPermission", "requestPermission"} /\ platform # "web-fs-access" =>
       /\ lastRet'.res = IF lastRet'.op = "queryPermission" THEN "granted" ELSE "ok"
       /\ lastRet'.by = "facade"
       /\ UNCHANGED <<config, env, db, platform, now, handles, handleObjects, files, namedHandles,
                      calls, usedIds, putOrder>>]_vars

\* queryPermission answered on the path backend with entries in the store
C14_Witness ==
  /\ platform = "tauri"
  /\ lastRet.op = "queryPermission" /\ lastRet.res = "granted"
  /\ Count > 0

\* C15: openFiles calls the adapter's openFile with multiple forced to true
\* and returns a collection on success: one file is wrapped into a one-element
\* collection, a collection and a failure are passed through unchanged
C15_OpenFilesWraps ==
  lastRet.op = "openFiles" =>
    /\ lastRet.passed = "true"
    /\ ~lastRet.adapter.ok => lastRet.result = lastRet.adapter
    /\ lastRet.adapter.ok =>
         /\ lastRet.result.ok
         /\ lastRet.result.shape = "list"
         /\ lastRet.result.data = lastRet.adapter.data

\* the adapter handed back one file although the caller asked for multiple: false
C15_Witness ==
  /\ lastRet.op = "openFiles"
  /\ lastRet.caller = "false"
  /\ lastRet.adapter.ok /\ lastRet.adapter.shape = "value"
  /\ lastRet.result.shape = "list" /\ Len(lastRet.result.data) = 1

\* a store write of call c is rejected in this step: the call leaves from its
\* write without having written
StoreRejects(c) == c.pc = "put" /\ calls' = Leave(c) /\ UNCHANGED storeVars

\* C16: a failure of the local-store transaction during openFile, saveFileAs or
\* openDirectory is returned as io_error, whatever the name of the store's
\* error, and never as cancelled
C16_StoreFailureIsIoError ==
  [][\A c \in InFlight :
       c.op \in {"openFile", "saveFileAs", "openDirectory"} /\ StoreRejects(c)
         => lastRet'.res = "io_error"]_vars

\* C17: on every backend an openFile whose dialog the user dismissed returns
\* cancelled, never a success, and leaves the store as it was
C17_DismissIsCancelled ==
  [][(lastRet' # lastRet /\ lastRet'.op = "openFile" /\ lastRet'.by = "user")
       => lastRet'.res = "cancelled" /\ UNCHANGED storeVars]_vars

\* the dialog was dismissed over a store that holds an entry
C17_Witness ==
  /\ lastRet.op = "openFile" /\ lastRet.by = "user" /\ lastRet.res = "cancelled"
  /\ Count > 0

IOOps ==
  {"openFile", "saveFile", "saveFileAs", "openDirectory", "readDirectory", "restoreFile",
   "restoreDirectory", "getNamedDirectory"}

\* C18: no facade I/O operation raises; a rejected read of the local store at the
\* start of restoreFile, restoreDirectory or getNamedDirectory comes back as a
\* failure result of kind io_error
C18_NoOperationRaises ==
  lastRet.op \in IOOps =>
    /\ lastRet.res \in ErrorCode \cup {"ok"}
    /\ lastRet.by = "store" => lastRet.res = "io_error"

PersistOps == {"openFile", "saveFile", "saveFileAs", "openDirectory"}

\* the store holds the entry restoreFile / restoreDirectory looks up for id
Restorable(id) == IF UsesHandles THEN id \in DOMAIN handleObjects ELSE id \in DOMAIN files

\* C19: when openFile, saveFile, saveFileAs or openDirectory succeeds with an
\* effective persist flag of true, the store holds an entry under every
\* identifier of the returned (or passed) value at the moment of the return:
\* the recent list contains it and a restore of it finds it
C19_PersistedAtReturn ==
  (lastRet.op \in PersistOps /\ lastRet.res = "ok" /\ lastRet.persist) =>
    \A i \in DOMAIN lastRet.ids :
      lastRet.ids[i] \in DOMAIN Recent /\ Restorable(lastRet.ids[i])

\* a call whose effective persist flag is false takes a step: it is in flight, or
\* it returns a success in this step
NotPersistingStep ==
  \/ \E c \in InFlight : ~c.persist /\ calls' # calls
  \/ /\ lastRet' # lastRet
     /\ lastRet'.op \in PersistOps /\ lastRet'.res = "ok" /\ ~lastRet'.persist

\* C20: openFile, saveFile, saveFileAs and openDirectory with an effective
\* persist flag of false leave the local store unchanged on every backend: they
\* add nothing to the recent list and evict nothing from it
C20_NoPersistLeavesStore ==
  [][NotPersistingStep => UNCHANGED storeVars /\ RecentIds' = RecentIds]_vars

\* C21: on web-fallback and capacitor, restoreFile of an identifier that is in
\* the store returns the stored bytes, name, MIME type and size, whatever the
\* source holds by then, and makes no native read
C21_CachedRestoreVerbatim ==
  (/\ lastRet.op = "restoreFile"
   /\ platform \in {"web-fallback", "capacitor"}
   /\ lastRet.ids[1] \in DOMAIN files) =>
    /\ lastRet.res = "ok"
    /\ lastRet.file = CachedFile(files[lastRet.ids[1]])
    /\ lastRet.file.size = byteLength(lastRet.file.content)
    /\ lastRet.native = <<>>

\* a restore of cached bytes while the source is gone, and one while it holds other bytes
C21_Witness ==
  /\ lastRet.op = "restoreFile" /\ lastRet.res = "ok"
  /\ platform = "capacitor"
  /\ lastRet.source # Gone /\ lastRet.source # lastRet.file.content
  /\ lastRet.file.mimeType = FileMime

\* the record of the restored identifier names a path and is not a directory
HasFilePath(id) == ~Falsy(files[id].path) /\ files[id].mimeType # DirMime

Outcome(call) ==
  IF \E i \in DOMAIN lastRet.native : lastRet.native[i][1] = call
    THEN lastRet.native[CHOOSE i \in DOMAIN lastRet.native : lastRet.native[i][1] = call][2]
    ELSE ""

GrantedAtRestore == Outcome("queryPermission") = "granted" \/ Outcome("requestPermission") = "granted"

\* the restored identifier names a stored handle of the kind the operation restores
HasHandleFor(op, id) ==
  /\ id \in DOMAIN handleObjects
  /\ handleObjects[id].kind = (IF op = "restoreFile" THEN "file" ELSE "directory")

\* C23: on web-fs-access restoreFile and restoreDirectory succeed only with
\* permission granted at restore time: it is queried, requested only when the
\* query was not granted, and without a grant the result is permission_denied
\* and the source is not read; a source that is gone gives not_found; a
\* restored file carries the bytes the source holds now
C23_RestoreRevalidates ==
  (/\ lastRet.op \in {"restoreFile", "restoreDirectory"}
   /\ platform = "web-fs-access"
   /\ HasHandleFor(lastRet.op, lastRet.ids[1])
   /\ Outcome("queryPermission") # "throws") =>
    /\ lastRet.res = "ok" => GrantedAtRestore
    /\ Outcome("requestPermission") # "" <=> Outcome("queryPermission") # "granted"
    /\ ~GrantedAtRestore => lastRet.res = "permission_denied" /\ Outcome("getFile") = ""
    /\ (GrantedAtRestore /\ lastRet.source = Gone) => lastRet.res = "not_found"
    /\ (lastRet.op = "restoreFile" /\ lastRet.res = "ok") =>
         lastRet.file.content = lastRet.source

C25_NoTargetNotSupported ==
  [][(/\ lastRet' # lastRet
      /\ lastRet'.op = "saveFile" /\ "target" \in DOMAIN lastRet'
      /\ platform \in {"web-fs-access", "tauri"}
      /\ ~lastRet'.target) =>
       /\ lastRet'.res = "not_supported"
       /\ lastRet'.native = <<>>
       /\ UNCHANGED storeVars]_vars

\* saveFile without a target was refused on tauri while the store held an entry
C25_Witness ==
  /\ lastRet.op = "saveFile" /\ "target" \in DOMAIN lastRet /\ ~lastRet.target
  /\ lastRet.res = "not_supported"
  /\ platform = "tauri" /\ Count > 0

ContentReads == {"arrayBuffer", "readFile", "text"}

\* C27: a successful readDirectory reads no file's content, its entries carry
\* no content, and it lists every child of the directory, files and
\* subdirectories alike, under the child's name and kind
C27_ListingIsMetadataOnly ==
  (lastRet.op = "readDirectory" /\ lastRet.res = "ok" /\ "entries" \in DOMAIN lastRet) =>
    /\ \A i \in 1..Len(lastRet.native) : lastRet.native[i][1] \notin ContentReads
    /\ \A i \in 1..Len(lastRet.entries) : "content" \notin lastRet.entries[i].fields
    /\ Len(lastRet.entries) = Len(lastRet.children)
    /\ \A i \in 1..Len(lastRet.entries) :
         /\ lastRet.entries[i].name = lastRet.children[i].name
         /\ lastRet.entries[i].kind = lastRet.children[i].kind

\* C28: a successful readFileFromDirectory returns the name and the size of the
\* entry it was given, whatever happened to the file since the listing; an
\* entry that is no file or has no handle / path gives not_supported with no
\* native call
C28_LoadMatchesListing ==
  (lastRet.op = "readFileFromDirectory" /\ "entry" \in DOMAIN lastRet) =>
    /\ lastRet.res = "ok" =>
         /\ lastRet.file.name = lastRet.entry.name
         /\ "size" \in lastRet.entry.fields
         /\ lastRet.file.size = lastRet.entry.size
    /\ (~IsFileEntry(lastRet.entry) \/ ~HasRef(lastRet.entry)) =>
         lastRet.res = "not_supported" /\ lastRet.native = <<>>

\* C29: opening a database older than DB_VERSION creates exactly the object
\* stores it lacks: no store that was there is ever dropped, no record changes
\* while the database changes, the connection opens on the old stores plus the
\* missing ones at DB_VERSION, and a call of this instance is past getDB() only
\* with the connection open, no upgrade running and all four stores present
C29_UpgradeAddsMissing ==
  [][/\ db.before.stores \subseteq db'.stores
     /\ db'.stores \ db.stores \subseteq StoreNames \ db.before.stores
     /\ db' # db => UNCHANGED storeVars
     /\ (db.conn # "open" /\ db'.conn = "open") =>
          /\ db'.stores = db.before.stores \cup StoreNames
          /\ db'.version = DB_VERSION
     /\ \A c \in BagToSet(calls') :
          c.pc # "getDB" =>
            db'.conn = "open" /\ db'.request = "idle" /\ StoreNames \subseteq db'.stores
     /\ storeVars' # storeVars =>
          db.conn = "open" /\ db.request = "idle" /\ StoreNames \subseteq db.stores]_vars

\* a version-1 database with a recent item was upgraded, the item is still
\* there, and setNamedDirectory has written to the store the upgrade added
C29_Witness ==
  /\ db.before.version = 1
  /\ db.conn = "open"
  /\ db.stores = StoreNames
  /\ 1 \in DOMAIN handles /\ 1 \in DOMAIN handleObjects
  /\ "out" \in DOMAIN namedHandles
  /\ lastRet.op = "setNamedDirectory" /\ lastRet.res = "ok"

\* the transaction of the call's store write ends without its put: the call is
\* no longer at the put and has not gone on to the pruning
WriteFails(c) ==
  /\ c.pc = "put"
  /\ c \notin BagToSet(calls')
  /\ [c EXCEPT !.pc = "prune"] \notin BagToSet(calls')

\* C30: a storeHandle / storeFile whose transaction fails leaves the four
\* collections and the order of the recent list as they were, evicts nothing,
\* and the call that made it returns a failure to its caller at once
C30_FailedWriteLeavesStore ==
  [][\A c \in InFlight :
       WriteFails(c) =>
         /\ UNCHANGED storeVars
         /\ putOrder' = putOrder
         /\ calls' = Leave(c)
         /\ lastRet'.op = c.op
         /\ lastRet'.res \in ErrorCode]_vars

\* C31: a persisting call that is suspended in the store eventually returns:
\* whenever a call is in flight, later none is
C31_EveryStoreWriteSettles == (calls # EmptyBag) ~> (calls = EmptyBag)

\* C32: whatever the interleaving of concurrent captures, when every call has
\* returned the recent list holds at most maxRecentFiles entries, and a pruning
\* never removes an entry while it keeps one with an older capture timestamp
C32_ConcurrentPruningIsOldestFirst ==
  /\ calls = EmptyBag => Count <= config.maxRecentFiles
  /\ \A c \in InFlight : c.pc = "remove" =>
       \A r \in {Head(c.toRemove)} \cap DOMAIN Recent :
         \A q \in DOMAIN Recent \ Range(c.toRemove) : Recent[r].storedAt <= Recent[q].storedAt

\* the store transaction of this call commits in this step
Puts(c) == c.pc = "put" /\ [c EXCEPT !.pc = "prune"] \in BagToSet(calls')

\* C33: on the content-caching backends the put of a persisting saveFile whose
\* identifier is in the recent list overwrites that entry: the list has the
\* same identifiers, the entry carries the time of the saveFile call, which is
\* no earlier than its old one and than that of any other entry, it holds the saved bytes, the other entries are untouched; and on the
\* content-cache-only backends a successful restoreFile returns the bytes the
\* entry holds
C33_SaveOverwritesEntry ==
  /\ [][\A c \in InFlight :
          (c.op = "saveFile" /\ Puts(c) /\ c.id \in DOMAIN Recent) =>
            /\ platform # "web-fs-access"
            /\ DOMAIN Recent' = DOMAIN Recent
            /\ Recent'[c.id].storedAt = c.item.storedAt
            /\ Recent[c.id].storedAt <= Recent'[c.id].storedAt
            /\ \A q \in DOMAIN Recent' : Recent'[q].storedAt <= Recent'[c.id].storedAt
            /\ files'[c.id].content = c.item.content
            /\ \A q \in DOMAIN files \ {c.id} : files'[q] = files[q]]_vars
  /\ [](/\ lastRet.op = "restoreFile" /\ lastRet.res = "ok" /\ "file" \in DOMAIN lastRet
        /\ platform \in {"web-fallback", "capacitor"}
        => lastRet.file.content = files[lastRet.ids[1]].content)

\* with room for two entries and two identifiers ever captured, a saveFile at
\* time 1 has just put its bytes over one of the two entries
C33_Witness ==
  /\ platform = "web-fallback"
  /\ config.maxRecentFiles = 2
  /\ usedIds = {1, 2}
  /\ DOMAIN files = {1, 2}
  /\ \E c \in InFlight :
       /\ c.op = "saveFile" /\ c.pc = "prune"
       /\ files[c.id].storedAt = 1
       /\ files[c.id].content = 1
       /\ \E q \in DOMAIN files : files[q].storedAt = 0

\* C34: named directories are a namespace of their own. setNamedDirectory puts
\* the given handle and its name under the key, replacing what was there, and
\* touches no other key and nothing of the recent list; no step that changes
\* the recent list changes a named record; removeNamedDirectory leaves the key
\* absent; getNamedDirectory answers from the record under the key: not_found
\* when there is none or it is no directory, else with permission granted the
\* directory with id = key and the record's handle and name
C34_NamedDirectoriesApart ==
  /\ [][/\ (lastRet'.op = "setNamedDirectory" /\ lastRet'.res = "ok"
            /\ "key" \in DOMAIN lastRet') =>
             /\ lastRet'.key \in DOMAIN namedHandles'
             /\ namedHandles'[lastRet'.key].handle = lastRet'.handle
             /\ namedHandles'[lastRet'.key].name = lastRet'.handle.name
             /\ \A q \in DOMAIN namedHandles \ {lastRet'.key} :
                  q \in DOMAIN namedHandles' /\ namedHandles'[q] = namedHandles[q]
             /\ DOMAIN namedHandles' = DOMAIN namedHandles \cup {lastRet'.key}
        /\ (lastRet'.op = "removeNamedDirectory" /\ "key" \in DOMAIN lastRet') =>
             /\ lastRet'.key \notin DOMAIN namedHandles'
             /\ \A q \in DOMAIN namedHandles \ {lastRet'.key} :
                  q \in DOMAIN namedHandles' /\ namedHandles'[q] = namedHandles[q]
        /\ namedHandles' # namedHandles =>
             UNCHANGED <<handles, handleObjects, files, putOrder>>
        /\ <<handles, handleObjects, files>>' # <<handles, handleObjects, files>> =>
             UNCHANGED namedHandles]_vars
  /\ []((lastRet.op = "getNamedDirectory" /\ "key" \in DOMAIN lastRet) =>
          LET there == /\ lastRet.key \in DOMAIN namedHandles
                       /\ namedHandles[lastRet.key].type = "directory"
          IN /\ ~there => lastRet.res = "not_found" /\ lastRet.native = <<>>
             /\ (there /\ GrantedAtRestore /\ lastRet.failed = "") => lastRet.res = "ok"
             /\ lastRet.res = "ok" =>
                  /\ there
                  /\ lastRet.dir.id = lastRet.key
                  /\ lastRet.dir.handle = namedHandles[lastRet.key].handle
                  /\ lastRet.dir.name = namedHandles[lastRet.key].name)

\* getNamedDirectory returned the directory stored under a key that is also
\* the identifier of an item of the recent list, another key being named too
C34_Witness ==
  /\ lastRet.op = "getNamedDirectory" /\ lastRet.res = "ok" /\ "key" \in DOMAIN lastRet
  /\ lastRet.key \in DOMAIN handles
  /\ lastRet.dir.name = "b"
  /\ Cardinality(DOMAIN namedHandles) = 2

\* ---------------------------------------------------------------------------
\* Stale item references: restoring after the identifier left the recent list
\* ---------------------------------------------------------------------------

\* The facade answers restoreDirectory itself where the adapter has none.
restoreDirectoryUnsupported(k) ==
  /\ ~Implements(platform, "restoreDirectory")
  /\ NotSupported("restoreDirectory", k)

NextStale ==
  \/ openFileStore(1, Contents)
  \/ openDirectoryStore(1)
  \/ \E c \in InFlight : StorePut(c)
  \/ \E c \in InFlight : PruneRead(c)
  \/ \E c \in InFlight : PruneRemove(c)
  \/ \E c \in InFlight : Iter(c, Contents)
  \/ removeFromRecent(1)
  \/ clearRecent(1)
  \/ restoreFileReading(1)
  \/ restoreDirectoryReading(1)
  \/ restoreDirectoryUnsupported(1)
  \/ Deliver

SpecStale == Init /\ [][NextStale]_vars

\* The identifier was put in the recent list once and is not in it now.
Left(id) == id \in Range(putOrder) /\ id \notin DOMAIN Recent

\* The last call was a restore of a stale item reference; the facade's own
\* answer is the same for every item reference, a stale one included.
StaleRestore ==
  /\ lastRet.op \in {"restoreFile", "restoreDirectory"}
  /\ IF lastRet.ids = <<>> THEN \E id \in Ids : Left(id) ELSE Left(lastRet.ids[1])

\* C35 as stated: restoreFile and restoreDirectory of an item reference whose
\* identifier has left the recent list return not_found on every backend.
C35_StaleRestoreIsNotFound ==
  StaleRestore => lastRet.res = "not_found"

\* C35 amended: restoring an item reference whose identifier has left the
\* recent list reads nothing and returns no value; the result is not_found,
\* or the facade's not_supported for restoreDirectory on a backend whose
\* adapter has no restoreDirectory.
C35_StaleRestoreReturnsNothing ==
  StaleRestore =>
    /\ \/ lastRet.res = "not_found"
       \/ /\ lastRet.res = "not_supported"
          /\ lastRet.op = "restoreDirectory"
          /\ lastRet.by = "facade"
          /\ ~Implements(platform, "restoreDirectory")
    /\ "file" \in DOMAIN lastRet => lastRet.file = NoFile /\ lastRet.native = <<>>

\* restoreFile of an identifier that was stored and then left the list while
\* another item is still stored
C35_Witness ==
  /\ lastRet.op = "restoreFile" /\ lastRet.res = "not_found"
  /\ Left(lastRet.ids[1])
  /\ DOMAIN Recent # {}

\* ---------------------------------------------------------------------------
\* Writing through a handle only with permission
\* ---------------------------------------------------------------------------

\* The last call was FSAccessAdapter.saveFile with its native calls recorded.
SavedThroughHandle ==
  /\ platform = "web-fs-access"
  /\ lastRet.op = "saveFile"
  /\ "native" \in DOMAIN lastRet /\ "target" \in DOMAIN lastRet

\* C36: on web-fs-access saveFile queries the readwrite permission first,
\* requests it only when the query was not granted, opens no writable stream
\* and returns permission_denied when the request was not granted, calls
\* createWritable, write and close only after a grant, and returns ok only
\* when write and close both completed.
C36_WritesOnlyWhenGranted ==
  SavedThroughHandle =>
    LET n == lastRet.native
        Refused(o) == o \notin {"", "granted", "throws"}
    IN /\ ~lastRet.target => n = <<>> /\ lastRet.res = "not_supported"
       /\ lastRet.target => n # <<>> /\ n[1][1] = "queryPermission"
       /\ \A i \in DOMAIN n :
            /\ n[i][1] = "queryPermission" => i = 1
            /\ n[i][1] = "requestPermission" => i = 2 /\ Refused(n[1][2])
            /\ n[i][1] \in {"createWritable", "write", "close"} =>
                 \E j \in 1..(i - 1) :
                   n[j][1] \in {"queryPermission", "requestPermission"} /\ n[j][2] = "granted"
       /\ Refused(Outcome("requestPermission")) =>
            lastRet.res = "permission_denied" /\ Outcome("createWritable") = ""
       /\ lastRet.res = "ok" =>
            /\ Outcome("createWritable") = "ok"
            /\ Outcome("write") = "ok"
            /\ Outcome("close") = "ok"

\* saveFile wrote and closed after the query answered prompt and the request
\* was granted
C36_Witness ==
  /\ SavedThroughHandle /\ lastRet.res = "ok"
  /\ Outcome("queryPermission") = "prompt"
  /\ Outcome("requestPermission") = "granted"
  /\ Outcome("close") = "ok"

\* ---------------------------------------------------------------------------
\* Capability table and derived flags
\* ---------------------------------------------------------------------------

\* PLATFORM_CAPABILITIES: the fields of type boolean | 'limited' are written
\* "true", "false", "limited".
PLATFORM_CAPABILITIES ==
  [p \in Platform |->
     CASE p = "web-fs-access" ->
            [openFile |-> TRUE, saveFile |-> TRUE, saveFileAs |-> TRUE,
             openDirectory |-> "true", readDirectory |-> "true",
             handlePersistence |-> TRUE, canSaveInPlace |-> TRUE]
       [] p = "web-fallback" ->
            [openFile |-> TRUE, saveFile |-> TRUE, saveFileAs |-> TRUE,
             openDirectory |-> "false", readDirectory |-> "false",
             handlePersistence |-> FALSE, canSaveInPlace |-> FALSE]
       [] p = "tauri" ->
            [openFile |-> TRUE, saveFile |-> TRUE, saveFileAs |-> TRUE,
             openDirectory |-> "true", readDirectory |-> "true",
             handlePersistence |-> FALSE, canSaveInPlace |-> TRUE]
       [] OTHER ->
            [openFile |-> TRUE, saveFile |-> TRUE, saveFileAs |-> TRUE,
             openDirectory |-> "limited", readDirectory |-> "limited",
             handlePersistence |-> FALSE, canSaveInPlace |-> FALSE]]

\* get capabilities
capabilities == PLATFORM_CAPABILITIES[platform]

\* Variant: a platform counts as supporting directories only with full support.
supportsDirectoriesInFull == capabilities.openDirectory = "true"

\* get supportsDirectories: typeof this.adapter.openDirectory === 'function'
supportsDirectories == Implements(platform, "openDirectory")

\* get supportsHandlePersistence
supportsHandlePersistence == platform = "web-fs-access"

\* A caller reads the three getters of the facade.
readFlags(k) ==
  /\ MayBegin(k)
  /\ lastRet' = Result("capabilities", "ok", <<>>)
                   @@ [capabilities |-> capabilities,
                       supportsDirectories |-> supportsDirectories,
                       supportsHandlePersistence |-> supportsHandlePersistence]
  /\ UNCHANGED <<config, env, db, platform, now, handles, handleObjects, files, namedHandles,
                 calls, usedIds, putOrder>>

NextFlags ==
  \/ readFlags(1)
  \/ openDirectoryFail(1)
  \/ openDirectoryNoStore(1)
  \/ readDirectory(1)
  \/ readFileFromDirectory(1)
  \/ Deliver

SpecFlags == Init /\ [][NextFlags]_vars

DirectoryOperations == {"openDirectory", "readDirectory", "readFileFromDirectory"}

RecentType(id) ==
  IF UsesHandles THEN Recent[id].type
  ELSE IF Recent[id].mimeType = DirMime THEN "directory" ELSE "file"

\* The last call restored an item that is in the recent list with this type.
RestoredOfType(op, type) ==
  /\ lastRet.op = op
  /\ lastRet.ids # <<>>
  /\ lastRet.ids[1] \in DOMAIN Recent
  /\ RecentType(lastRet.ids[1]) = type

\* C38: restoreFile of a stored item whose recent-list type is directory
\* returns a failure, never a file value, and restoreDirectory of a stored
\* item whose type is file returns not_found.
C38_RestoreMatchesKind ==
  /\ RestoredOfType("restoreFile", "directory") => lastRet.res # "ok"
  /\ RestoredOfType("restoreDirectory", "file") => lastRet.res = "not_found"

\* The part of C38 the adapters with a kind check keep: web-fs-access for
\* both operations, tauri for restoreDirectory.
C38_KindCheckedWhereTested ==
  /\ (platform = "web-fs-access" /\ RestoredOfType("restoreFile", "directory")) =>
       lastRet.res = "not_found"
  /\ RestoredOfType("restoreDirectory", "file") => lastRet.res = "not_found"

\* ---------------------------------------------------------------------------
\* A failed openFile and the recent list
\* ---------------------------------------------------------------------------

\* The step ends the openFile call c with a failure.
OpenFileFails(c) ==
  /\ c.op = "openFile"
  /\ calls' = Leave(c)
  /\ lastRet'.op = "openFile"
  /\ lastRet'.res # "ok"

\* C39: an openFile call that returns a failure leaves the recent list as it
\* was before the call; the identifiers of a call are generated during it, so
\* in particular no file of the failed call's selection is in the list when
\* the failure is returned, also when a later file of a multiple selection
\* fails after earlier ones were stored.
C39_FailedOpenFileLeavesList ==
  [][\A c \in InFlight :
       OpenFileFails(c) => Range(c.done) \cap DOMAIN Recent' = {}]_vars

\* The part of C39 that holds: the failing step itself changes no store, and a
\* call that fails at its first file has stored nothing.
C39_FailingStepStoresNothing ==
  [][\A c \in InFlight :
       OpenFileFails(c) =>
         /\ UNCHANGED <<handles, handleObjects, files, namedHandles, putOrder>>
         /\ c.done = <<>> => c.id \notin DOMAIN Recent']_vars

====
